---- MODULE Spec2Model ----
(***************************************************************************)
(* Snowflake dialect adapter of drizzle-orm.                               *)
(*                                                                         *)
(* Part 1: the session / transaction layer (SnowflakeSdkSession,           *)
(* SnowflakeSdkTransaction, SnowflakeSdkPreparedQuery) driving one vendor  *)
(* connection whose execute() is callback based.                           *)
(***************************************************************************)
EXTENDS Integers, Sequences, FiniteSets, TLC

\* ------------------------------------------------------------------ bounds
\* statements one transaction body issues through its handle
MaxStmts == 2
\* deepest nestedIndex a body reaches through tx.transaction()
MaxDepth == 2
\* statements per body when two calls share the connection
MaxSharedStmts == 1

\* the top-level transaction() calls made on the one session
Tx == {1, 2}

VARIABLES
    sent,      \* every connection.execute() call so far, in call order
    pc,        \* position of each transaction() call
    ctl,       \* index in sent of the control statement a call awaits
    bst,       \* state of the body promise of each call
    depth,     \* nestedIndex of the handle the body currently runs on
    waitOn,    \* index in sent of the statement the body awaits, or 0
    exc,       \* the error in flight inside the body
    caught,    \* the error bound in the catch clause of transaction()
    outcome,   \* what the promise returned by transaction() settled with
    calls,     \* number of execute()/all()/control-statement invocations
    nestedCalls, \* per call: tx.transaction() was invoked
    rollbackCalls, \* per call: tx.rollback() was invoked
    detached,  \* per call: a statement was issued without awaiting it
    query,     \* the query descriptor handed to the dialect
    built      \* what the dialect made of it

vars == <<sent, pc, ctl, bst, depth, waitOn, exc, caught, outcome, calls,
          nestedCalls, rollbackCalls, detached, query, built>>

\* ------------------------------------------------------------------ values
None == [src |-> "none", id |-> 0]
\* the error object the driver hands to the complete callback of statement i
DriverError(i) == [src |-> "driver", id |-> i]
\* an error thrown by the code of the body of call t
BodyError(t) == [src |-> "body", id |-> t]
TransactionRollbackError == [src |-> "TransactionRollbackError", id |-> 0]
\* the rows of statement i as the driver delivers them
Rows(i) == [src |-> "rows", id |-> i]
\* customResultMapper(rows) of statement i
Mapped(i) == [src |-> "mapped", id |-> i]
\* the value the body of call t resolves with
Result(t) == [src |-> "result", id |-> t]

BEGIN_TRANSACTION == "BEGIN TRANSACTION"
COMMIT == "COMMIT"
ROLLBACK == "ROLLBACK"
STMT == "STMT"

\* the three ways a prepared query is run
Kinds == {"execute", "executeMapped", "all"}

\* ------------------------------------------------------- the connection
\* connection.execute({sqlText, binds, complete}): one more call on the log
ConnectionExecute(log, t, sql, kind) ==
    Append(log, [tx |-> t, sql |-> sql, kind |-> kind,
                 nestedIndex |-> depth[t], st |-> "pending", val |-> None])

\* variant: the callback wraps the driver's error in an error of its own
CompleteCallback_Wraps(i, kind, err) ==
    IF err THEN [src |-> "wrapped", id |-> i]
    ELSE IF kind = "executeMapped" THEN Mapped(i)
    ELSE Rows(i)

\* the complete callback of statement i of the log: what its promise
\* settles with
CompleteCallback(i, kind, err) ==
    IF err THEN DriverError(i)
    ELSE IF kind = "executeMapped" THEN Mapped(i)
    ELSE Rows(i)

\* the driver invokes the complete callback of a pending statement
Complete(i, err) ==
    /\ i \in 1..Len(sent)
    /\ sent[i].st = "pending"
    /\ sent' = [sent EXCEPT ![i].st = IF err THEN "err" ELSE "ok",
                            ![i].val = CompleteCallback(i, sent[i].kind, err)]
    /\ UNCHANGED <<query, built, pc, ctl, bst, depth, waitOn, exc, caught, outcome, calls,
                   nestedCalls, rollbackCalls, detached>>

Settled(i) == sent[i].st # "pending"

\* ------------------------------------------- SnowflakeSdkSession.transaction
\* variant: transaction() waits until no other call holds the connection
SessionTransaction_Locked(t) ==
    /\ pc[t] = "idle"
    /\ \A u \in Tx \ {t} : pc[u] \in {"idle", "resolved", "rejected"}
    /\ sent' = ConnectionExecute(sent, t, BEGIN_TRANSACTION, "control")
    /\ calls' = calls + 1
    /\ ctl' = [ctl EXCEPT ![t] = Len(sent) + 1]
    /\ pc' = [pc EXCEPT ![t] = "begin"]
    /\ UNCHANGED <<query, built, bst, depth, waitOn, exc, caught, outcome,
                   nestedCalls, rollbackCalls, detached>>

\* transaction(): build the handle with nestedIndex 0 and send BEGIN
SessionTransaction(t) ==
    /\ pc[t] = "idle"
    /\ sent' = ConnectionExecute(sent, t, BEGIN_TRANSACTION, "control")
    /\ calls' = calls + 1
    /\ ctl' = [ctl EXCEPT ![t] = Len(sent) + 1]
    /\ pc' = [pc EXCEPT ![t] = "begin"]
    /\ UNCHANGED <<query, built, bst, depth, waitOn, exc, caught, outcome,
                   nestedCalls, rollbackCalls, detached>>

\* variant: the promise of BEGIN is not awaited before the body is invoked
AfterBegin_NoAwait(t) ==
    /\ pc[t] = "begin"
    /\ IF sent[ctl[t]].st = "err"
       THEN /\ pc' = [pc EXCEPT ![t] = "rejected"]
            /\ outcome' = [outcome EXCEPT ![t] = sent[ctl[t]].val]
            /\ UNCHANGED bst
       ELSE /\ pc' = [pc EXCEPT ![t] = "body"]
            /\ bst' = [bst EXCEPT ![t] = "run"]
            /\ UNCHANGED outcome
    /\ UNCHANGED <<query, built, sent, ctl, depth, waitOn, exc, caught, calls,
                   nestedCalls, rollbackCalls, detached>>

\* variant: a failure of BEGIN is dropped and the body is invoked anyway
AfterBegin_IgnoresError(t) ==
    /\ pc[t] = "begin"
    /\ Settled(ctl[t])
    /\ pc' = [pc EXCEPT ![t] = "body"]
    /\ bst' = [bst EXCEPT ![t] = "run"]
    /\ UNCHANGED <<query, built, sent, ctl, depth, waitOn, exc, caught, calls,
                   outcome, nestedCalls, rollbackCalls, detached>>

\* the await of BEGIN continues: a failure leaves transaction(), a success
\* enters the try block and invokes the body
AfterBegin(t) ==
    /\ pc[t] = "begin"
    /\ Settled(ctl[t])
    /\ IF sent[ctl[t]].st = "err"
       THEN /\ pc' = [pc EXCEPT ![t] = "rejected"]
            /\ outcome' = [outcome EXCEPT ![t] = sent[ctl[t]].val]
            /\ UNCHANGED bst
       ELSE /\ pc' = [pc EXCEPT ![t] = "body"]
            /\ bst' = [bst EXCEPT ![t] = "run"]
            /\ UNCHANGED outcome
    /\ UNCHANGED <<query, built, sent, ctl, depth, waitOn, exc, caught, calls,
                   nestedCalls, rollbackCalls, detached>>

\* variant: the result is returned without sending COMMIT
Commit_Omitted(t) ==
    /\ pc[t] = "body"
    /\ bst[t] = "resolved"
    /\ pc' = [pc EXCEPT ![t] = "resolved"]
    /\ outcome' = [outcome EXCEPT ![t] = Result(t)]
    /\ UNCHANGED <<query, built, sent, calls, ctl, bst, depth, waitOn, exc, caught,
                   nestedCalls, rollbackCalls, detached>>

\* variant: COMMIT is sent without awaiting the promise of the body
Commit_NoAwait(t) ==
    /\ pc[t] = "body"
    /\ sent' = ConnectionExecute(sent, t, COMMIT, "control")
    /\ calls' = calls + 1
    /\ ctl' = [ctl EXCEPT ![t] = Len(sent) + 1]
    /\ pc' = [pc EXCEPT ![t] = "commit"]
    /\ UNCHANGED <<query, built, bst, depth, waitOn, exc, caught, outcome,
                   nestedCalls, rollbackCalls, detached>>

\* the body resolved: send COMMIT
Commit(t) ==
    /\ pc[t] = "body"
    /\ bst[t] = "resolved"
    /\ sent' = ConnectionExecute(sent, t, COMMIT, "control")
    /\ calls' = calls + 1
    /\ ctl' = [ctl EXCEPT ![t] = Len(sent) + 1]
    /\ pc' = [pc EXCEPT ![t] = "commit"]
    /\ UNCHANGED <<query, built, bst, depth, waitOn, exc, caught, outcome,
                   nestedCalls, rollbackCalls, detached>>

\* variant: the catch clause ends the transaction with COMMIT
Catch_Commits(t, error) ==
    /\ sent' = ConnectionExecute(sent, t, COMMIT, "control")
    /\ calls' = calls + 1
    /\ ctl' = [ctl EXCEPT ![t] = Len(sent) + 1]
    /\ caught' = [caught EXCEPT ![t] = error]
    /\ pc' = [pc EXCEPT ![t] = "rollback"]

\* the catch clause: bind the error and send ROLLBACK
Catch(t, error) ==
    /\ sent' = ConnectionExecute(sent, t, ROLLBACK, "control")
    /\ calls' = calls + 1
    /\ ctl' = [ctl EXCEPT ![t] = Len(sent) + 1]
    /\ caught' = [caught EXCEPT ![t] = error]
    /\ pc' = [pc EXCEPT ![t] = "rollback"]

\* variant: COMMIT is awaited outside the try block, its failure leaves
\* transaction() without a ROLLBACK
AfterCommit_Rethrows(t) ==
    /\ pc[t] = "commit"
    /\ Settled(ctl[t])
    /\ IF sent[ctl[t]].st = "err"
       THEN /\ pc' = [pc EXCEPT ![t] = "rejected"]
            /\ outcome' = [outcome EXCEPT ![t] = sent[ctl[t]].val]
       ELSE /\ pc' = [pc EXCEPT ![t] = "resolved"]
            /\ outcome' = [outcome EXCEPT ![t] = Result(t)]
    /\ UNCHANGED <<query, built, sent, calls, ctl, caught, bst, depth, waitOn,
                   exc, nestedCalls, rollbackCalls, detached>>

\* the await of COMMIT continues: return the result, or (COMMIT being
\* inside the try block) enter the catch clause with COMMIT's error
AfterCommit(t) ==
    /\ pc[t] = "commit"
    /\ Settled(ctl[t])
    /\ IF sent[ctl[t]].st = "err"
       THEN /\ Catch(t, sent[ctl[t]].val)
            /\ UNCHANGED outcome
       ELSE /\ pc' = [pc EXCEPT ![t] = "resolved"]
            /\ outcome' = [outcome EXCEPT ![t] = Result(t)]
            /\ UNCHANGED <<sent, calls, ctl, caught>>
    /\ UNCHANGED <<query, built, bst, depth, waitOn, exc, nestedCalls, rollbackCalls,
                   detached>>

\* variant: the error of the body is passed on without a ROLLBACK
BodyRejected_NoRollback(t) ==
    /\ pc[t] = "body"
    /\ bst[t] = "rejected"
    /\ pc' = [pc EXCEPT ![t] = "rejected"]
    /\ outcome' = [outcome EXCEPT ![t] = exc[t]]
    /\ UNCHANGED <<query, built, sent, calls, ctl, caught, bst, depth, waitOn, exc,
                   nestedCalls, rollbackCalls, detached>>

\* the body rejected: enter the catch clause with its error
BodyRejected(t) ==
    /\ pc[t] = "body"
    /\ bst[t] = "rejected"
    /\ Catch(t, exc[t])
    /\ UNCHANGED <<query, built, bst, depth, waitOn, exc, outcome, nestedCalls,
                   rollbackCalls, detached>>

\* variant: a failure of ROLLBACK is swallowed and the caught error thrown
AfterRollback_KeepsCaught(t) ==
    /\ pc[t] = "rollback"
    /\ Settled(ctl[t])
    /\ outcome' = [outcome EXCEPT ![t] = caught[t]]
    /\ pc' = [pc EXCEPT ![t] = "rejected"]
    /\ UNCHANGED <<query, built, sent, ctl, bst, depth, waitOn, exc, caught, calls,
                   nestedCalls, rollbackCalls, detached>>

\* variant: the catch clause goes on only when ROLLBACK succeeded; after a
\* failed ROLLBACK the call stays pending
AfterRollback_OnlyOk(t) ==
    /\ pc[t] = "rollback"
    /\ Settled(ctl[t])
    /\ sent[ctl[t]].st = "ok"
    /\ outcome' = [outcome EXCEPT ![t] = caught[t]]
    /\ pc' = [pc EXCEPT ![t] = "rejected"]
    /\ UNCHANGED <<query, built, sent, ctl, bst, depth, waitOn, exc, caught, calls,
                   nestedCalls, rollbackCalls, detached>>

\* the await of ROLLBACK continues: its failure leaves the catch clause,
\* otherwise the caught error is thrown again
AfterRollback(t) ==
    /\ pc[t] = "rollback"
    /\ Settled(ctl[t])
    /\ outcome' = [outcome EXCEPT ![t] =
                     IF sent[ctl[t]].st = "err" THEN sent[ctl[t]].val
                     ELSE caught[t]]
    /\ pc' = [pc EXCEPT ![t] = "rejected"]
    /\ UNCHANGED <<query, built, sent, ctl, bst, depth, waitOn, exc, caught, calls,
                   nestedCalls, rollbackCalls, detached>>

\* ------------------------------------------------ the transaction body
\* statements call t issued through its handle
BodyStmts(t) == {i \in 1..Len(sent) : sent[i].tx = t /\ sent[i].sql = STMT}

Running(t) == pc[t] = "body" /\ bst[t] = "run"

\* the body runs a prepared query on the handle: execute() or all() calls
\* connection.execute once; the body awaits the promise or keeps it
Execute(t, kind, await) ==
    /\ Running(t)
    /\ Cardinality(BodyStmts(t)) < MaxStmts
    /\ sent' = ConnectionExecute(sent, t, STMT, kind)
    /\ calls' = calls + 1
    /\ IF await
       THEN /\ bst' = [bst EXCEPT ![t] = "await"]
            /\ waitOn' = [waitOn EXCEPT ![t] = Len(sent) + 1]
            /\ UNCHANGED detached
       ELSE /\ detached' = [detached EXCEPT ![t] = TRUE]
            /\ UNCHANGED <<bst, waitOn>>
    /\ UNCHANGED <<query, built, pc, ctl, depth, exc, caught, outcome,
                   nestedCalls, rollbackCalls>>

\* the body awaits the promise of a statement it issued earlier
Await(t, i) ==
    /\ Running(t)
    /\ i \in BodyStmts(t)
    /\ bst' = [bst EXCEPT ![t] = "await"]
    /\ waitOn' = [waitOn EXCEPT ![t] = i]
    /\ UNCHANGED <<query, built, sent, pc, ctl, depth, exc, caught, outcome, calls,
                   nestedCalls, rollbackCalls, detached>>

\* the awaited promise settled: the body goes on, or the rejection is
\* thrown at the await
Resume(t) ==
    /\ pc[t] = "body"
    /\ bst[t] = "await"
    /\ Settled(waitOn[t])
    /\ IF sent[waitOn[t]].st = "err"
       THEN /\ bst' = [bst EXCEPT ![t] = "thrown"]
            /\ exc' = [exc EXCEPT ![t] = sent[waitOn[t]].val]
       ELSE /\ bst' = [bst EXCEPT ![t] = "run"]
            /\ UNCHANGED exc
    /\ waitOn' = [waitOn EXCEPT ![t] = 0]
    /\ UNCHANGED <<query, built, sent, pc, ctl, depth, caught, outcome, calls,
                   nestedCalls, rollbackCalls, detached>>

\* variant: the nested call opens a transaction of its own
NestedTransaction_Begins(t) ==
    /\ pc[t] = "body" /\ bst[t] = "run"
    /\ depth[t] < MaxDepth
    /\ sent' = ConnectionExecute(sent, t, BEGIN_TRANSACTION, "control")
    /\ calls' = calls + 1
    /\ depth' = [depth EXCEPT ![t] = depth[t] + 1]
    /\ nestedCalls' = [nestedCalls EXCEPT ![t] = TRUE]
    /\ UNCHANGED <<query, built, pc, ctl, bst, waitOn, exc, caught, outcome,
                   rollbackCalls, detached>>

\* SnowflakeSdkTransaction.transaction: a handle with nestedIndex + 1, the
\* inner body is invoked at once
NestedTransaction(t) ==
    /\ Running(t)
    /\ depth[t] < MaxDepth
    /\ depth' = [depth EXCEPT ![t] = depth[t] + 1]
    /\ nestedCalls' = [nestedCalls EXCEPT ![t] = TRUE]
    /\ UNCHANGED <<query, built, sent, pc, ctl, bst, waitOn, exc, caught, outcome, calls,
                   rollbackCalls, detached>>

\* the running body returns: an inner body gives control back to the body
\* that called tx.transaction(), the outermost one resolves the promise
\* transaction() awaits
Return(t) ==
    /\ Running(t)
    /\ IF depth[t] > 0
       THEN /\ depth' = [depth EXCEPT ![t] = depth[t] - 1]
            /\ UNCHANGED bst
       ELSE /\ bst' = [bst EXCEPT ![t] = "resolved"]
            /\ UNCHANGED depth
    /\ UNCHANGED <<query, built, sent, pc, ctl, waitOn, exc, caught, outcome, calls,
                   nestedCalls, rollbackCalls, detached>>

\* variant: rollback() runs ROLLBACK on the connection before throwing
Rollback_Sends(t) ==
    /\ pc[t] = "body" /\ bst[t] = "run"
    /\ sent' = ConnectionExecute(sent, t, ROLLBACK, "control")
    /\ calls' = calls + 1
    /\ bst' = [bst EXCEPT ![t] = "thrown"]
    /\ exc' = [exc EXCEPT ![t] = TransactionRollbackError]
    /\ rollbackCalls' = [rollbackCalls EXCEPT ![t] = TRUE]
    /\ UNCHANGED <<query, built, pc, ctl, depth, waitOn, caught, outcome,
                   nestedCalls, detached>>

\* SnowflakeTransaction.rollback(): throw new TransactionRollbackError()
Rollback(t) ==
    /\ Running(t)
    /\ bst' = [bst EXCEPT ![t] = "thrown"]
    /\ exc' = [exc EXCEPT ![t] = TransactionRollbackError]
    /\ rollbackCalls' = [rollbackCalls EXCEPT ![t] = TRUE]
    /\ UNCHANGED <<query, built, sent, pc, ctl, depth, waitOn, caught, outcome, calls,
                   nestedCalls, detached>>

\* the code of the body throws an error of its own
Throw(t) ==
    /\ Running(t)
    /\ bst' = [bst EXCEPT ![t] = "thrown"]
    /\ exc' = [exc EXCEPT ![t] = BodyError(t)]
    /\ UNCHANGED <<query, built, sent, pc, ctl, depth, waitOn, caught, outcome, calls,
                   nestedCalls, rollbackCalls, detached>>

\* the error in flight leaves the running body: an inner body rejects the
\* promise of tx.transaction(), which throws in the calling body; the
\* outermost body rejects the promise transaction() awaits
Propagate(t) ==
    /\ pc[t] = "body"
    /\ bst[t] = "thrown"
    /\ IF depth[t] > 0
       THEN /\ depth' = [depth EXCEPT ![t] = depth[t] - 1]
            /\ UNCHANGED bst
       ELSE /\ bst' = [bst EXCEPT ![t] = "rejected"]
            /\ UNCHANGED depth
    /\ UNCHANGED <<query, built, sent, pc, ctl, waitOn, exc, caught, outcome, calls,
                   nestedCalls, rollbackCalls, detached>>

\* a try/catch of the running body handles the error in flight
Handle(t) ==
    /\ pc[t] = "body"
    /\ bst[t] = "thrown"
    /\ bst' = [bst EXCEPT ![t] = "run"]
    /\ exc' = [exc EXCEPT ![t] = None]
    /\ UNCHANGED <<query, built, sent, pc, ctl, depth, waitOn, caught, outcome, calls,
                   nestedCalls, rollbackCalls, detached>>

\* ------------------------------------------------------- specification
\* no query handed to the dialect
NoQuery == [kind |-> "none"]
\* nothing built
NotBuilt == [kind |-> "none", path |-> "", table |-> "", column |-> ""]

\* the session right after its construction
SessionInit ==
    /\ sent = <<>>
    /\ pc = [t \in Tx |-> "idle"]
    /\ ctl = [t \in Tx |-> 0]
    /\ bst = [t \in Tx |-> "none"]
    /\ depth = [t \in Tx |-> 0]
    /\ waitOn = [t \in Tx |-> 0]
    /\ exc = [t \in Tx |-> None]
    /\ caught = [t \in Tx |-> None]
    /\ outcome = [t \in Tx |-> None]
    /\ calls = 0
    /\ nestedCalls = [t \in Tx |-> FALSE]
    /\ rollbackCalls = [t \in Tx |-> FALSE]
    /\ detached = [t \in Tx |-> FALSE]

Init ==
    /\ SessionInit
    /\ query = NoQuery
    /\ built = NotBuilt

\* one transaction() call with an arbitrary body
Solo == {1}

Next ==
    \/ \E t \in Solo : SessionTransaction(t)
    \/ \E t \in Solo : AfterBegin(t)
    \/ \E t \in Solo : Commit(t)
    \/ \E t \in Solo : AfterCommit(t)
    \/ \E t \in Solo : BodyRejected(t)
    \/ \E t \in Solo : AfterRollback(t)
    \/ \E i \in 1..Len(sent), err \in BOOLEAN : Complete(i, err)
    \/ \E t \in Solo, kind \in Kinds, await \in BOOLEAN :
          Execute(t, kind, await)
    \/ \E t \in Solo, i \in 1..Len(sent) : Await(t, i)
    \/ \E t \in Solo : Resume(t)
    \/ \E t \in Solo : NestedTransaction(t)
    \/ \E t \in Solo : Return(t)
    \/ \E t \in Solo : Rollback(t)
    \/ \E t \in Solo : Throw(t)
    \/ \E t \in Solo : Propagate(t)
    \/ \E t \in Solo : Handle(t)

Spec == Init /\ [][Next]_vars

\* ------------------------------------------------------------- fairness
\* the statements one call can put on the log: BEGIN, the body statements,
\* COMMIT and ROLLBACK
MaxSent == MaxStmts + 3

\* a continuation of transaction() that is ready to run
TransactionStep(t) ==
    \/ AfterBegin(t)
    \/ Commit(t)
    \/ AfterCommit(t)
    \/ BodyRejected(t)
    \/ AfterRollback(t)

\* the promise of the body of every call settles
BodySettles ==
    \A t \in Solo :
        (bst[t] = "run") ~> (bst[t] \in {"resolved", "rejected"})

\* one transaction() call on a connection that invokes the complete callback
\* of every statement handed to it, with a body whose promise settles; the
\* event loop runs every continuation that is ready
SpecLive ==
    /\ Spec
    /\ \A i \in 1..MaxSent : WF_vars(\E err \in BOOLEAN : Complete(i, err))
    /\ \A t \in Solo : WF_vars(TransactionStep(t))
    /\ \A t \in Solo : WF_vars(Resume(t))
    /\ BodySettles

\* two transaction() calls started on the same session without waiting
\* for each other; each body awaits its statements one after the other
SharedExecute(t) ==
    /\ Cardinality(BodyStmts(t)) < MaxSharedStmts
    /\ Execute(t, "execute", TRUE)

NextShared ==
    \/ \E t \in Tx : SessionTransaction(t)
    \/ \E t \in Tx : AfterBegin(t)
    \/ \E t \in Tx : Commit(t)
    \/ \E t \in Tx : AfterCommit(t)
    \/ \E t \in Tx : BodyRejected(t)
    \/ \E t \in Tx : AfterRollback(t)
    \/ \E i \in 1..Len(sent), err \in BOOLEAN : Complete(i, err)
    \/ \E t \in Tx : SharedExecute(t)
    \/ \E t \in Tx : Resume(t)
    \/ \E t \in Tx : Return(t)
    \/ \E t \in Tx : Propagate(t)

SpecShared == Init /\ [][NextShared]_vars

TypeOK ==
    /\ pc \in [Tx -> {"idle", "begin", "body", "commit", "rollback",
                      "resolved", "rejected"}]
    /\ bst \in [Tx -> {"none", "run", "await", "thrown", "resolved",
                       "rejected"}]
    /\ depth \in [Tx -> 0..MaxDepth]
    /\ calls \in Nat

(***************************************************************************)
(* Part 2: the dialect (SnowflakeDialect), a function from a query         *)
(* descriptor to SQL or to a construction error.                           *)
(***************************************************************************)
\* fields in the selection of one query
MaxFields == 2
\* entries in the join list of one query
MaxJoins == 1

\* tables as the dialect sees them: Table.Symbol.Name, BaseName, IsAlias
\* and Schema
Users == [name |-> "users", baseName |-> "users", isAlias |-> FALSE,
          schema |-> ""]
Orders == [name |-> "orders", baseName |-> "orders", isAlias |-> FALSE,
           schema |-> ""]
\* alias(users, 'u')
UsersAlias == [name |-> "u", baseName |-> "users", isAlias |-> TRUE,
               schema |-> ""]
\* a table named users of another schema
ArchiveUsers == [name |-> "users", baseName |-> "users", isAlias |-> FALSE,
                 schema |-> "archive"]
\* snowflakeTableCreator((name) => 'app_' + name)('orders', ...)
AppOrders == [name |-> "app_orders", baseName |-> "orders",
              isAlias |-> FALSE, schema |-> ""]
\* the table the columns of the subquery sq present themselves with
SqTable == [name |-> "sq", baseName |-> "users", isAlias |-> TRUE,
            schema |-> ""]
NoTable == [name |-> "", baseName |-> "", isAlias |-> FALSE, schema |-> ""]

Tables == {Users, Orders, UsersAlias, ArchiveUsers, AppOrders}

getTableName(table) == table.name

\* the name a joined table is listed under
getTableLikeName(table) ==
    IF table.isAlias THEN getTableName(table) ELSE table.baseName

\* what a query selects from: a table, the subquery sq, or raw SQL
Roots == {[kind |-> "table", table |-> t, alias |-> ""] : t \in Tables}
         \cup {[kind |-> "subquery", table |-> SqTable, alias |-> "sq"],
               [kind |-> "sql", table |-> NoTable, alias |-> ""]}

\* SnowflakeSelectJoinConfig of a joined table
JoinOf(table) == [table |-> table, alias |-> getTableLikeName(table)]

\* a field of the selection: a bare column, or an SQL expression (which
\* may mention a column)
Fields == {[kind |-> k, table |-> t, name |-> "id"] :
              k \in {"column", "sql"}, t \in Tables \cup {SqTable}}

\* the key a field is selected under
PathOf(k) ==
    IF k = 1 THEN <<"a">> ELSE IF k = 2 THEN <<"nested", "b">>
    ELSE IF k = 3 THEN <<"c">> ELSE <<"nested", "more", "d">>

Undefined == "undefined"

\* sequences over S of length lo..hi
SeqsOf(S, lo, hi) == UNION {[1..n -> S] : n \in lo..hi}

\* SnowflakeSelectConfig: table, joins (of the tables ts), fieldsFlat (of
\* the fields fs), where
SelectConfig(r, ts, fs, w) ==
    [kind |-> "select", table |-> r,
     joins |-> [k \in DOMAIN ts |-> JoinOf(ts[k])],
     fieldsFlat |-> [k \in DOMAIN fs |-> [path |-> PathOf(k),
                                           field |-> fs[k]]],
     where |-> w]

\* path.join('->')
RECURSIVE join(_, _)
join(path, sep) ==
    IF Len(path) = 0 THEN ""
    ELSE IF Len(path) = 1 THEN path[1]
    ELSE path[1] \o sep \o join(Tail(path), sep)

\* the name the columns of the root are expected to carry
rootName(table) ==
    IF table.kind = "subquery" THEN table.alias
    ELSE IF table.kind = "sql" THEN Undefined
    ELSE getTableName(table.table)

\* variant: the join list is not consulted
notPartOfQuery_RootOnly(f, table, joins) ==
    /\ f.field.kind = "column"
    /\ getTableName(f.field.table) # rootName(table)

\* the condition under which buildSelectQuery rejects field f
notPartOfQuery(f, table, joins) ==
    /\ f.field.kind = "column"
    /\ getTableName(f.field.table) # rootName(table)
    /\ ~ \E j \in DOMAIN joins :
            joins[j].alias = getTableLikeName(f.field.table)

\* the loop over fieldsList from field k on: the error of the first field
\* that is rejected, or NotBuilt when the loop ends
RECURSIVE validateFields(_, _)
validateFields(cfg, k) ==
    IF k > Len(cfg.fieldsFlat) THEN NotBuilt
    ELSE IF notPartOfQuery(cfg.fieldsFlat[k], cfg.table, cfg.joins)
    THEN [kind |-> "error",
          path |-> join(cfg.fieldsFlat[k].path, "->"),
          table |-> getTableName(cfg.fieldsFlat[k].field.table),
          column |-> cfg.fieldsFlat[k].field.name]
    ELSE validateFields(cfg, k + 1)

\* chunks of an SQL fragment: sql.identifier(name), a column put into the
\* fragment as it is, and literal text
Identifier(name) == [kind |-> "identifier", table |-> "", name |-> name]
ColumnChunk(column) ==
    [kind |-> "column", table |-> getTableName(column.table),
     name |-> column.name]
Raw(text) == [kind |-> "raw", table |-> "", name |-> text]

\* casing.getColumnCasing(column) with no casing policy configured
getColumnCasing(column) == column.name

\* the fragment serializer writes a column chunk as "table"."name" and an
\* identifier chunk as "name"
Qualified(chunk) == chunk.kind = "column"

\* variant: the selection is always built as for a query with joins
isSingleTable_Never(joins) == FALSE

\* const isSingleTable = !joins || joins.length === 0
isSingleTable(joins) == Len(joins) = 0

\* what buildSelection pushes for one field: an SQL expression has the
\* columns among its queryChunks replaced by identifiers in a single-table
\* query, a bare column is pushed as an identifier or as it is
selectionChunk(field, single) ==
    IF field.kind = "sql"
    THEN [kind |-> "sql", table |-> "", name |-> "",
          queryChunks |-> <<Raw("lower("),
                            IF single THEN Identifier(getColumnCasing(field))
                            ELSE ColumnChunk(field),
                            Raw(")")>>]
    ELSE IF single THEN Identifier(getColumnCasing(field))
    ELSE ColumnChunk(field)

\* buildSelection from field i on: a chunk per field, ', ' between them
RECURSIVE buildSelectionFrom(_, _, _)
buildSelectionFrom(fields, single, i) ==
    IF i > Len(fields) THEN <<>>
    ELSE <<selectionChunk(fields[i].field, single)>>
         \o (IF i < Len(fields) THEN <<Raw(", ")>> ELSE <<>>)
         \o buildSelectionFrom(fields, single, i + 1)

buildSelection(fields, single) == buildSelectionFrom(fields, single, 1)

\* buildSelectQuery: the error thrown by the loop, or the SQL
buildSelectQuery(cfg) ==
    LET error == validateFields(cfg, 1)
    IN  IF error # NotBuilt THEN error
        ELSE [kind |-> "sql", path |-> "", table |-> "", column |-> "",
              selection |-> buildSelection(cfg.fieldsFlat,
                                           isSingleTable(cfg.joins))]

\* the dialect is asked to build the SELECT
BuildSelectQuery ==
    /\ query.kind = "select"
    /\ built = NotBuilt
    /\ built' = buildSelectQuery(query)
    /\ UNCHANGED <<query, sent, pc, ctl, bst, depth, waitOn, exc, caught,
                   outcome, calls, nestedCalls, rollbackCalls, detached>>

InitSelect ==
    /\ SessionInit
    /\ \E r \in Roots, ts \in SeqsOf(Tables, 0, MaxJoins),
          fs \in SeqsOf(Fields, 1, MaxFields), w \in {NoTable, Orders} :
          query = SelectConfig(r, ts, fs, w)
    /\ built = NotBuilt

NextSelect == BuildSelectQuery

SpecSelect == InitSelect /\ [][NextSelect]_vars

(***************************************************************************)
(* Part 3: INSERT, UPDATE and DELETE descriptors and their compilation.    *)
(* Descriptors carry no CTE list.                                          *)
(***************************************************************************)
\* rows in the values of one INSERT
MaxRows == 2

\* the columns of the table written to, in the order of the table
ColumnNames == <<"id", "name">>

\* what a column is configured with: generated (shouldDisableInsert), a
\* static default ('' is one a truth test takes for none), $defaultFn,
\* $onUpdateFn
ColumnConfigs ==
    {c \in [disableInsert : BOOLEAN, default : {Undefined, "", "n/a"},
            defaultFn : BOOLEAN, onUpdateFn : BOOLEAN] :
        /\ c.defaultFn => c.default = Undefined
        /\ c.disableInsert =>
              c.default = Undefined /\ ~c.defaultFn /\ ~c.onUpdateFn}

\* table[Table.Symbol.Columns] of every table over ColumnNames
ModifyTables ==
    {[name |-> "users",
      columns |-> [k \in DOMAIN ColumnNames |->
                      [name |-> ColumnNames[k],
                       disableInsert |-> cs[k].disableInsert,
                       default |-> cs[k].default,
                       defaultFn |-> cs[k].defaultFn,
                       onUpdateFn |-> cs[k].onUpdateFn]]] :
        cs \in [DOMAIN ColumnNames -> ColumnConfigs]}

\* value[fieldName] of a key the row does not have
Absent == [kind |-> "undefined", value |-> ""]
\* new Param(value, column)
Param(value) == [kind |-> "param", value |-> value]
\* an SQL expression given as a value
SqlValue == [kind |-> "sql", value |-> "now()"]
\* sql`DEFAULT`
Default == [kind |-> "sql", value |-> "DEFAULT"]

\* what the insert builder hands over for a column of a row
InsertValues == {Absent, Param(Undefined), Param("v")}
\* what the update builder hands over for a column
UpdateValues == {Absent, Param("v"), SqlValue}
\* the returning and onConflict configuration of a descriptor
Returnings == {Undefined, "id"}
OnConflicts == {Undefined, "do nothing"}

\* the values of an INSERT: rows keyed by the position of the column
InsertRows == SeqsOf([DOMAIN ColumnNames -> InsertValues], 1, MaxRows)

\* SnowflakeInsertConfig: an INSERT of rows, or an INSERT ... SELECT (select
\* set, no rows)
InsertConfig(table, select, values, returning, onConflict) ==
    [kind |-> "insert", table |-> table, select |-> select,
     values |-> values, returning |-> returning, onConflict |-> onConflict]

\* SnowflakeUpdateConfig
UpdateConfigs ==
    {[kind |-> "update", table |-> t, set |-> st, where |-> w,
      returning |-> r] :
        t \in ModifyTables, st \in [DOMAIN ColumnNames -> UpdateValues],
        w \in {NoTable, Orders}, r \in Returnings}

\* SnowflakeDeleteConfig
DeleteConfigs ==
    {[kind |-> "delete", table |-> t, where |-> w, returning |-> r] :
        t \in ModifyTables, w \in {NoTable, Orders}, r \in Returnings}

\* column.shouldDisableInsert()
shouldDisableInsert(col) == col.disableInsert

\* !col.default
NoDefault(col) == col.default = Undefined \/ col.default = ""

\* is(result, SQL) ? result : sql.param(result, col)
paramOf(result) == IF result.kind = "sql" THEN result ELSE Param(result.value)

\* the positions of all columns, in table order
Positions(columns) == [k \in DOMAIN columns |-> k]

\* variant: no column is left out
colEntries_All(columns) == Positions(columns)

\* Object.entries(columns).filter(([_, col]) => !col.shouldDisableInsert())
colEntries(columns) ==
    SelectSeq(Positions(columns),
              LAMBDA k : ~shouldDisableInsert(columns[k]))

\* what buildInsertQuery pushes to valueList for column col of a row
insertValue(col, colValue) ==
    IF \/ colValue = Absent
       \/ (colValue.kind = "param" /\ colValue.value = Undefined)
    THEN IF col.defaultFn
         THEN paramOf([kind |-> "value", value |-> "defaultFn()"])
         ELSE IF NoDefault(col) /\ col.onUpdateFn
         THEN paramOf([kind |-> "value", value |-> "onUpdateFn()"])
         ELSE Default
    ELSE colValue

\* variant: the value list of a row follows the keys of the row object
buildInsertQuery_RowKeys(cfg) ==
    LET entries == colEntries(cfg.table.columns)
    IN  [kind |-> "sql", statement |-> "insert", table |-> cfg.table.name,
         insertOrder |-> [k \in DOMAIN entries |->
             Identifier(getColumnCasing(cfg.table.columns[entries[k]]))],
         select |-> cfg.select,
         values |-> [r \in DOMAIN cfg.values |->
             LET keys == SelectSeq(Positions(cfg.table.columns),
                                   LAMBDA k : cfg.values[r][k] # Absent)
             IN  [k \in DOMAIN keys |-> cfg.values[r][keys[k]]]]]

\* variant: a RETURNING clause is compiled when the descriptor has one
buildInsertQuery_Returning(cfg) ==
    LET entries == colEntries(cfg.table.columns)
    IN  [kind |-> "sql", statement |-> "insert", table |-> cfg.table.name,
         insertOrder |-> [k \in DOMAIN entries |->
             Identifier(getColumnCasing(cfg.table.columns[entries[k]]))],
         select |-> cfg.select,
         values |-> [r \in DOMAIN cfg.values |->
             [k \in DOMAIN entries |->
                 insertValue(cfg.table.columns[entries[k]],
                             cfg.values[r][entries[k]])]],
         returning |-> cfg.returning]

\* buildInsertQuery: INSERT INTO table insertOrder, then the SELECT or
\* VALUES and a value list per row
buildInsertQuery(cfg) ==
    LET entries == colEntries(cfg.table.columns)
    IN  [kind |-> "sql", statement |-> "insert", table |-> cfg.table.name,
         insertOrder |-> [k \in DOMAIN entries |->
             Identifier(getColumnCasing(cfg.table.columns[entries[k]]))],
         select |-> cfg.select,
         values |-> [r \in DOMAIN cfg.values |->
             [k \in DOMAIN entries |->
                 insertValue(cfg.table.columns[entries[k]],
                             cfg.values[r][entries[k]])]]]

\* variant: only the columns a value was supplied for are set
columnNames_Supplied(columns, set) ==
    SelectSeq(Positions(columns), LAMBDA k : set[k] # Absent)

\* Object.keys(tableColumns).filter((colName) => set[colName] !== undefined
\* || tableColumns[colName]?.onUpdateFn !== undefined)
columnNames(columns, set) ==
    SelectSeq(Positions(columns),
              LAMBDA k : set[k] # Absent \/ columns[k].onUpdateFn)

\* set[colName] ?? (is(onUpdateFnResult, SQL) ? onUpdateFnResult
\* : sql.param(onUpdateFnResult, col)); col.onUpdateFn?.() of a column
\* without the function is undefined
updateValue(col, value) ==
    IF value # Absent THEN value
    ELSE paramOf([kind |-> "value",
                  value |-> IF col.onUpdateFn THEN "onUpdateFn()"
                            ELSE Undefined])

\* buildUpdateSet: column = value for each of columnNames
buildUpdateSet(table, set) ==
    LET names == columnNames(table.columns, set)
    IN  [k \in DOMAIN names |->
            [column |-> Identifier(getColumnCasing(table.columns[names[k]])),
             value |-> updateValue(table.columns[names[k]], set[names[k]])]]

\* buildUpdateQuery: UPDATE table SET setSql, WHERE if there is one
buildUpdateQuery(cfg) ==
    [kind |-> "sql", statement |-> "update", table |-> cfg.table.name,
     set |-> buildUpdateSet(cfg.table, cfg.set), where |-> cfg.where]

\* buildDeleteQuery: DELETE FROM table, WHERE if there is one
buildDeleteQuery(cfg) ==
    [kind |-> "sql", statement |-> "delete", table |-> cfg.table.name,
     where |-> cfg.where]

\* the dialect is asked to build the INSERT
BuildInsertQuery ==
    /\ query.kind = "insert"
    /\ built = NotBuilt
    /\ built' = buildInsertQuery(query)
    /\ UNCHANGED <<query, sent, pc, ctl, bst, depth, waitOn, exc, caught,
                   outcome, calls, nestedCalls, rollbackCalls, detached>>

\* the dialect is asked to build the UPDATE
BuildUpdateQuery ==
    /\ query.kind = "update"
    /\ built = NotBuilt
    /\ built' = buildUpdateQuery(query)
    /\ UNCHANGED <<query, sent, pc, ctl, bst, depth, waitOn, exc, caught,
                   outcome, calls, nestedCalls, rollbackCalls, detached>>

\* the dialect is asked to build the DELETE
BuildDeleteQuery ==
    /\ query.kind = "delete"
    /\ built = NotBuilt
    /\ built' = buildDeleteQuery(query)
    /\ UNCHANGED <<query, sent, pc, ctl, bst, depth, waitOn, exc, caught,
                   outcome, calls, nestedCalls, rollbackCalls, detached>>

InitModify ==
    /\ SessionInit
    /\ \/ \E t \in ModifyTables, r \in Returnings, c \in OnConflicts :
             \/ \E vs \in InsertRows :
                   query = InsertConfig(t, FALSE, vs, r, c)
             \/ query = InsertConfig(t, TRUE, <<>>, r, c)
       \/ query \in UpdateConfigs \cup DeleteConfigs
    /\ built = NotBuilt

NextModify ==
    \/ BuildInsertQuery
    \/ BuildUpdateQuery
    \/ BuildDeleteQuery

SpecModify == InitModify /\ [][NextModify]_vars

(***************************************************************************)
(* Part 4: set operations (UNION, EXCEPT, ...) on a SELECT.                *)
(***************************************************************************)
\* entries of the setOperators list of one query
MaxSetOperators == 2

\* one entry of an orderBy list: a column, an SQL expression over a column
\* (sql`${users.id} desc`), an SQL expression without columns
OrderByEntries ==
    {[kind |-> "column", table |-> "users", name |-> "id",
      queryChunks |-> <<>>],
     [kind |-> "sql", table |-> "", name |-> "",
      queryChunks |-> <<ColumnChunk([table |-> Users, name |-> "id"]),
                        Raw(" desc")>>],
     [kind |-> "sql", table |-> "", name |-> "",
      queryChunks |-> <<Raw("1")>>]}

\* limit: undefined or a number
Limits == {[kind |-> "undefined", value |-> 0],
           [kind |-> "number", value |-> 10]}
\* offset: undefined or a number
Offsets == {[kind |-> "undefined", value |-> 0],
            [kind |-> "number", value |-> 5]}

\* the SELECT on either side of the operators
SideConfig(table) ==
    [kind |-> "select", table |-> [kind |-> "table", table |-> table,
                                   alias |-> ""],
     joins |-> <<>>,
     fieldsFlat |-> <<[path |-> PathOf(1),
                       field |-> [kind |-> "column", table |-> table,
                                  name |-> "id"]]>>,
     where |-> NoTable]

\* one entry of setOperators
SetOperators ==
    [type : {"union", "except"}, isAll : BOOLEAN,
     rightSelect : {SideConfig(Orders)},
     orderBy : SeqsOf(OrderByEntries, 0, 1),
     limit : Limits, offset : Offsets]

\* a SnowflakeSelectConfig with its setOperators list
SetOperationConfig(setOperators) ==
    [kind |-> "setOperation", select |-> SideConfig(Users),
     setOperators |-> setOperators]

\* the loop over the queryChunks of an SQL entry of orderBy: a column chunk
\* is overwritten, in the entry itself, by sql.identifier(chunk.name)
replaceColumns(entry) ==
    IF entry.kind = "sql"
    THEN [entry EXCEPT !.queryChunks =
             [i \in DOMAIN @ |-> IF @[i].kind = "column"
                                 THEN Identifier(@[i].name) ELSE @[i]]]
    ELSE entry

\* what the loop pushes to orderByValues for one entry
orderByValue(entry) ==
    IF entry.kind = "column" THEN Identifier(entry.name)
    ELSE replaceColumns(entry)

\* buildSetOperationQuery: (left) type [ALL] (right), then ORDER BY, LIMIT
\* and OFFSET where they are given
buildSetOperationQuery(leftSelect, setOperator) ==
    [kind |-> "sql", statement |-> "setOperation",
     left |-> leftSelect,
     operator |-> setOperator.type
                    \o (IF setOperator.isAll THEN " ALL " ELSE " "),
     right |-> buildSelectQuery(setOperator.rightSelect),
     orderBy |-> [i \in DOMAIN setOperator.orderBy |->
                     orderByValue(setOperator.orderBy[i])],
     limit |-> IF setOperator.limit.kind = "number"
                  /\ setOperator.limit.value >= 0
               THEN setOperator.limit ELSE [kind |-> "undefined", value |-> 0],
     offset |-> setOperator.offset]

\* new Error('Cannot pass undefined values to any set operator')
CannotPassUndefined ==
    [kind |-> "error",
     message |-> "Cannot pass undefined values to any set operator"]

\* variant: the operators are applied from the last to the first, so that
\* the first one is the outermost
RECURSIVE buildSetOperations_RightFold(_, _)
buildSetOperations_RightFold(leftSelect, setOperators) ==
    IF Len(setOperators) = 0 THEN CannotPassUndefined
    ELSE IF Len(setOperators) = 1
    THEN buildSetOperationQuery(leftSelect, Head(setOperators))
    ELSE buildSetOperationQuery(
             buildSetOperations_RightFold(leftSelect, Tail(setOperators)),
             Head(setOperators))

\* buildSetOperations: an empty list throws; otherwise the operators are
\* applied from the first to the last, each to the query built so far
RECURSIVE buildSetOperations(_, _)
buildSetOperations(leftSelect, setOperators) ==
    IF Len(setOperators) = 0 THEN CannotPassUndefined
    ELSE IF Len(setOperators) = 1
    THEN buildSetOperationQuery(leftSelect, Head(setOperators))
    ELSE buildSetOperations(
             buildSetOperationQuery(leftSelect, Head(setOperators)),
             Tail(setOperators))

\* variant: the set-operation builder is called whatever the length of the
\* list
buildSelectWithSetOperators_Always(cfg) ==
    buildSetOperations(buildSelectQuery(cfg.select), cfg.setOperators)

\* the end of buildSelectQuery: the SELECT goes through buildSetOperations
\* when setOperators is not empty, and is returned as it is otherwise
buildSelectWithSetOperators(cfg) ==
    IF Len(cfg.setOperators) > 0
    THEN buildSetOperations(buildSelectQuery(cfg.select), cfg.setOperators)
    ELSE buildSelectQuery(cfg.select)

\* the dialect is asked to build a SELECT with its setOperators list: the
\* SQL is built, and the SQL entries of the orderBy lists of the descriptor
\* are left with their column chunks overwritten
BuildSetOperations ==
    /\ query.kind = "setOperation"
    /\ built = NotBuilt
    /\ built' = buildSelectWithSetOperators(query)
    /\ query' = [query EXCEPT !.setOperators =
                    [k \in DOMAIN @ |-> [@[k] EXCEPT !.orderBy =
                        [i \in DOMAIN @ |-> replaceColumns(@[i])]]]]
    /\ UNCHANGED <<sent, pc, ctl, bst, depth, waitOn, exc, caught,
                   outcome, calls, nestedCalls, rollbackCalls, detached>>

\* dialect.buildSetOperations(leftSelect, setOperators) is called with the
\* compiled left query and a list of operators
CallBuildSetOperations ==
    /\ query.kind = "buildSetOperations"
    /\ built = NotBuilt
    /\ built' = buildSetOperations(buildSelectQuery(query.select),
                                   query.setOperators)
    /\ query' = [query EXCEPT !.setOperators =
                    [k \in DOMAIN @ |-> [@[k] EXCEPT !.orderBy =
                        [i \in DOMAIN @ |-> replaceColumns(@[i])]]]]
    /\ UNCHANGED <<sent, pc, ctl, bst, depth, waitOn, exc, caught,
                   outcome, calls, nestedCalls, rollbackCalls, detached>>

InitSetOperation ==
    /\ SessionInit
    /\ \E ops \in SeqsOf(SetOperators, 0, MaxSetOperators) :
          \/ query = SetOperationConfig(ops)
          \/ /\ Len(ops) <= 1
             /\ query = [SetOperationConfig(ops) EXCEPT
                             !.kind = "buildSetOperations"]
    /\ built = NotBuilt

NextSetOperation ==
    \/ BuildSetOperations
    \/ CallBuildSetOperations

SpecSetOperation == InitSetOperation /\ [][NextSetOperation]_vars

(***************************************************************************)
(* Part 5: SnowflakeDialect.migrate.                                       *)
(***************************************************************************)
\* migrations handed to one migrate() call
MaxMigrations == 2
\* statements in the sql of one migration
MaxSql == 2
\* the largest folderMillis / created_at
MaxMillis == 2

\* MigrationMeta: folderMillis and the number of statements in sql (the
\* hash and the statements are told apart by the position of the migration)
Migrations == [folderMillis : 1..MaxMillis, sql : 0..MaxSql]

\* a migrate() call: the migrations, and the rows the SELECT ... ORDER BY
\* created_at DESC LIMIT 1 on the bookkeeping table delivers
MigrateCalls ==
    {[kind |-> "migrate", migrations |-> ms, dbMigrations |-> rows] :
        ms \in SeqsOf(Migrations, 0, MaxMigrations),
        rows \in {<<>>} \cup {<<[created_at |-> c]>> : c \in 1..MaxMillis}}

\* Number(lastDbMigration.created_at) of the decimal string of a BIGINT
Number(created_at) == created_at

\* a statement handed to session.execute / session.all
Statement(sql, m, s) == [sql |-> sql, migration |-> m, stmt |-> s]

CREATE_SCHEMA == "CREATE SCHEMA IF NOT EXISTS"
CREATE_TABLE == "CREATE TABLE IF NOT EXISTS"
SELECT_LAST == "SELECT id, hash, created_at ORDER BY created_at DESC LIMIT 1"
MIGRATION_STMT == "sql.raw(stmt)"
INSERT_MIGRATION == "INSERT INTO (hash, created_at) VALUES"

\* variant: every migration is run
isPending_All(lastDbMigration, migration) == TRUE

\* !lastDbMigration || Number(lastDbMigration.created_at) <
\* migration.folderMillis, with lastDbMigration = dbMigrations[0]
isPending(lastDbMigration, migration) ==
    IF Len(lastDbMigration) = 0 THEN TRUE
    ELSE Number(lastDbMigration[1].created_at) < migration.folderMillis

\* variant: the rejection of a statement is swallowed and migrate goes on
AwaitExecute_Continues(statement, ok, next) ==
    built' = [next EXCEPT !.log = Append(built.log, statement),
                          !.failed = IF ok THEN @
                                     ELSE @ \cup {Len(built.log) + 1}]

\* await session.execute(statement): the statement is sent; when it
\* succeeds migrate continues at next, when it fails migrate rejects with
\* the error of that statement
AwaitExecute(statement, ok, next) ==
    built' = IF ok THEN [next EXCEPT !.log = Append(built.log, statement)]
             ELSE [built EXCEPT !.log = Append(built.log, statement),
                                !.failed = @ \cup {Len(built.log) + 1},
                                !.error = Len(built.log) + 1,
                                !.pc = "rejected"]

\* migrate() is called: CREATE SCHEMA IF NOT EXISTS
MigrateCreateSchema(ok) ==
    /\ query.kind = "migrate"
    /\ built = NotBuilt
    /\ built' = [kind |-> "migrate",
                 pc |-> IF ok THEN "table" ELSE "rejected",
                 log |-> <<Statement(CREATE_SCHEMA, 0, 0)>>,
                 failed |-> IF ok THEN {} ELSE {1},
                 error |-> IF ok THEN 0 ELSE 1,
                 lastDbMigration |-> <<>>, m |-> 1, s |-> 1]
    /\ UNCHANGED <<query, sent, pc, ctl, bst, depth, waitOn, exc, caught,
                   outcome, calls, nestedCalls, rollbackCalls, detached>>

\* CREATE TABLE IF NOT EXISTS
MigrateCreateTable(ok) ==
    /\ built.kind = "migrate"
    /\ built.pc = "table"
    /\ AwaitExecute(Statement(CREATE_TABLE, 0, 0), ok,
                    [built EXCEPT !.pc = "select"])
    /\ UNCHANGED <<query, sent, pc, ctl, bst, depth, waitOn, exc, caught,
                   outcome, calls, nestedCalls, rollbackCalls, detached>>

\* the last recorded migration is read
MigrateSelect(ok) ==
    /\ built.kind = "migrate"
    /\ built.pc = "select"
    /\ AwaitExecute(Statement(SELECT_LAST, 0, 0), ok,
                    [built EXCEPT !.pc = "loop",
                                  !.lastDbMigration = query.dbMigrations])
    /\ UNCHANGED <<query, sent, pc, ctl, bst, depth, waitOn, exc, caught,
                   outcome, calls, nestedCalls, rollbackCalls, detached>>

\* the loop is at a migration that is not to be run
MigrateSkip ==
    /\ built.kind = "migrate"
    /\ built.pc = "loop"
    /\ built.m <= Len(query.migrations)
    /\ ~isPending(built.lastDbMigration, query.migrations[built.m])
    /\ built' = [built EXCEPT !.m = @ + 1]
    /\ UNCHANGED <<query, sent, pc, ctl, bst, depth, waitOn, exc, caught,
                   outcome, calls, nestedCalls, rollbackCalls, detached>>

\* the next statement of the migration that is run
MigrateStatement(ok) ==
    /\ built.kind = "migrate"
    /\ built.pc = "loop"
    /\ built.m <= Len(query.migrations)
    /\ isPending(built.lastDbMigration, query.migrations[built.m])
    /\ built.s <= query.migrations[built.m].sql
    /\ AwaitExecute(Statement(MIGRATION_STMT, built.m, built.s), ok,
                    [built EXCEPT !.s = @ + 1])
    /\ UNCHANGED <<query, sent, pc, ctl, bst, depth, waitOn, exc, caught,
                   outcome, calls, nestedCalls, rollbackCalls, detached>>

\* the migration that was run is recorded
MigrateInsert(ok) ==
    /\ built.kind = "migrate"
    /\ built.pc = "loop"
    /\ built.m <= Len(query.migrations)
    /\ isPending(built.lastDbMigration, query.migrations[built.m])
    /\ built.s > query.migrations[built.m].sql
    /\ AwaitExecute(Statement(INSERT_MIGRATION, built.m, 0), ok,
                    [built EXCEPT !.m = @ + 1, !.s = 1])
    /\ UNCHANGED <<query, sent, pc, ctl, bst, depth, waitOn, exc, caught,
                   outcome, calls, nestedCalls, rollbackCalls, detached>>

\* the loop has ended: migrate() resolves
MigrateReturn ==
    /\ built.kind = "migrate"
    /\ built.pc = "loop"
    /\ built.m > Len(query.migrations)
    /\ built' = [built EXCEPT !.pc = "resolved"]
    /\ UNCHANGED <<query, sent, pc, ctl, bst, depth, waitOn, exc, caught,
                   outcome, calls, nestedCalls, rollbackCalls, detached>>

InitMigrate ==
    /\ SessionInit
    /\ query \in MigrateCalls
    /\ built = NotBuilt

NextMigrate ==
    \/ \E ok \in BOOLEAN : MigrateCreateSchema(ok)
    \/ \E ok \in BOOLEAN : MigrateCreateTable(ok)
    \/ \E ok \in BOOLEAN : MigrateSelect(ok)
    \/ MigrateSkip
    \/ \E ok \in BOOLEAN : MigrateStatement(ok)
    \/ \E ok \in BOOLEAN : MigrateInsert(ok)
    \/ MigrateReturn

SpecMigrate == InitMigrate /\ [][NextMigrate]_vars

(***************************************************************************)
(* Part 6: names of primary keys, unique constraints and foreign keys.     *)
(***************************************************************************)
\* columns of one constraint
MaxKeyColumns == 2

\* the names of the columns a constraint is declared on
KeyColumns == SeqsOf({"id", "name"}, 1, MaxKeyColumns)

\* primaryKey({name, columns}), unique(name).on(...columns) and
\* foreignKey({name, columns, foreignColumns}) as declared for a table
ConstraintConfigs ==
    {[kind |-> k, name |-> n, table |-> t, columns |-> cs,
      foreignTable |-> NoTable, foreignColumns |-> <<>>] :
        k \in {"primaryKey", "unique"}, n \in {Undefined, "custom"},
        t \in {Users, AppOrders}, cs \in KeyColumns}
    \cup {[kind |-> "foreignKey", name |-> n, table |-> t, columns |-> cs,
           foreignTable |-> ft, foreignColumns |-> fcs] :
             n \in {Undefined, "custom"}, t \in {Users, AppOrders},
             cs \in KeyColumns, ft \in {Users, Orders}, fcs \in KeyColumns}

primaryKeyName(table, columns) ==
    getTableName(table) \o "_" \o join(columns, "_") \o "_pk"

uniqueKeyName(table, columns) ==
    getTableName(table) \o "_" \o join(columns, "_") \o "_unique"

\* new PrimaryKey(table, columns, name): this.name = name ??
\* primaryKeyName(table, columns.map((c) => c.name))
PrimaryKey(table, columns, name) ==
    [table |-> table, columns |-> columns,
     name |-> IF name # Undefined THEN name
              ELSE primaryKeyName(table, columns)]

\* new UniqueConstraint(table, columns, nullsNotDistinct, name)
UniqueConstraint(table, columns, name) ==
    [table |-> table, columns |-> columns,
     name |-> IF name # Undefined THEN name
              ELSE uniqueKeyName(table, columns)]

\* foreignKey(config): the builder is given mappedConfig, which hands on
\* columns and foreignColumns
foreignKey(config) ==
    [columns |-> config.columns, foreignTable |-> config.foreignTable,
     foreignColumns |-> config.foreignColumns]

\* ForeignKey.getName() of the key built for table from the builder's
\* reference
ForeignKeyGetName(table, reference) ==
    join(<<getTableName(table)>> \o reference.columns
         \o <<getTableName(reference.foreignTable)>>
         \o reference.foreignColumns, "_") \o "_fk"

\* a primary key is built for its table and asked for its name
BuildPrimaryKey ==
    /\ query.kind = "primaryKey"
    /\ built = NotBuilt
    /\ built' = [kind |-> "name",
                 name |-> PrimaryKey(query.table, query.columns,
                                     query.name).name]
    /\ UNCHANGED <<query, sent, pc, ctl, bst, depth, waitOn, exc, caught,
                   outcome, calls, nestedCalls, rollbackCalls, detached>>

\* a unique constraint is built for its table and asked for its name
BuildUniqueConstraint ==
    /\ query.kind = "unique"
    /\ built = NotBuilt
    /\ built' = [kind |-> "name",
                 name |-> UniqueConstraint(query.table, query.columns,
                                           query.name).name]
    /\ UNCHANGED <<query, sent, pc, ctl, bst, depth, waitOn, exc, caught,
                   outcome, calls, nestedCalls, rollbackCalls, detached>>

\* a foreign key is built for its table and asked for its name
BuildForeignKey ==
    /\ query.kind = "foreignKey"
    /\ built = NotBuilt
    /\ built' = [kind |-> "name",
                 name |-> ForeignKeyGetName(query.table, foreignKey(query))]
    /\ UNCHANGED <<query, sent, pc, ctl, bst, depth, waitOn, exc, caught,
                   outcome, calls, nestedCalls, rollbackCalls, detached>>

InitConstraint ==
    /\ SessionInit
    /\ query \in ConstraintConfigs
    /\ built = NotBuilt

NextConstraint ==
    \/ BuildPrimaryKey
    \/ BuildUniqueConstraint
    \/ BuildForeignKey

SpecConstraint == InitConstraint /\ [][NextConstraint]_vars

(***************************************************************************)
(* Part 7: escaping of identifiers and string literals.  A string is the   *)
(* sequence of its characters.                                             *)
(***************************************************************************)
\* characters of one string
MaxLen == 3

SQ == "'"
DQ == "\""

\* a letter, an upper-case letter, the two quotes and the backslash
Chars == {"a", "B", SQ, DQ, "\\"}

Strings == SeqsOf(Chars, 0, MaxLen)

\* what is handed to escapeString and to escapeName
EscapeCalls == {[kind |-> k, str |-> str] :
                   k \in {"string", "name"}, str \in Strings}

\* str.replace(/'/g, "''")
RECURSIVE replaceQuotes(_)
replaceQuotes(str) ==
    IF str = <<>> THEN <<>>
    ELSE (IF Head(str) = SQ THEN <<SQ, SQ>> ELSE <<Head(str)>>)
         \o replaceQuotes(Tail(str))

\* variant: the string is put between the quotes as it is
escapeString_Verbatim(str) == <<SQ>> \o str \o <<SQ>>

\* escapeString: `'${str.replace(/'/g, "''")}'`
escapeString(str) == <<SQ>> \o replaceQuotes(str) \o <<SQ>>

\* escapeName: `"${name}"`
escapeName(name) == <<DQ>> \o name \o <<DQ>>

\* the largest ordinal of a parameter
MaxOrdinal == 3

\* variant: the placeholder carries the ordinal of the parameter
escapeParam_Numbered(num) == IF num = 0 THEN <<"?">> ELSE <<"?", "1">>

\* escapeParam(_num): `?`
escapeParam(num) == <<"?">>

\* dialect.escapeParam(num) is called
EscapeParam ==
    /\ query.kind = "param"
    /\ built = NotBuilt
    /\ built' = [kind |-> "text", text |-> escapeParam(query.num)]
    /\ UNCHANGED <<query, sent, pc, ctl, bst, depth, waitOn, exc, caught,
                   outcome, calls, nestedCalls, rollbackCalls, detached>>

\* dialect.escapeString(str) is called
EscapeString ==
    /\ query.kind = "string"
    /\ built = NotBuilt
    /\ built' = [kind |-> "text", text |-> escapeString(query.str)]
    /\ UNCHANGED <<query, sent, pc, ctl, bst, depth, waitOn, exc, caught,
                   outcome, calls, nestedCalls, rollbackCalls, detached>>

\* dialect.escapeName(name) is called
EscapeName ==
    /\ query.kind = "name"
    /\ built = NotBuilt
    /\ built' = [kind |-> "text", text |-> escapeName(query.str)]
    /\ UNCHANGED <<query, sent, pc, ctl, bst, depth, waitOn, exc, caught,
                   outcome, calls, nestedCalls, rollbackCalls, detached>>

InitEscape ==
    /\ SessionInit
    /\ \/ query \in EscapeCalls
       \/ \E num \in 0..MaxOrdinal : query = [kind |-> "param", num |-> num]
    /\ built = NotBuilt

NextEscape ==
    \/ EscapeString
    \/ EscapeName
    \/ EscapeParam

SpecEscape == InitEscape /\ [][NextEscape]_vars

(***************************************************************************)
(* Part 8: the column types and the SQL type each one renders.  An         *)
(* optional setting is <<>> when undefined and <<v>> when set to v.        *)
(***************************************************************************)
\* largest length, precision or scale of a column
MaxPrecision == 3

Unset == <<>>
Optional(S) == {Unset} \cup {<<v>> : v \in S}
\* v ?? d
Coalesce(v, d) == IF v = Unset THEN d ELSE v[1]

\* new SnowflakeVarcharBuilder(name, config).build(table)
SnowflakeVarchar(config) ==
    [columnType |-> "SnowflakeVarchar", length |-> config.length]

\* new SnowflakeNumberBuilder(name, config).build(table)
SnowflakeNumber(config) ==
    [columnType |-> "SnowflakeNumber", precision |-> config.precision,
     scale |-> config.scale]

\* new SnowflakeTimestampBuilder(name, config).build(table)
SnowflakeTimestamp(config) ==
    [columnType |-> "SnowflakeTimestamp",
     withTimezone |-> Coalesce(config.withTimezone, FALSE),
     precision |-> config.precision]

\* new SnowflakeTimestampStringBuilder(name, config).build(table)
SnowflakeTimestampString(config) ==
    [columnType |-> "SnowflakeTimestampString",
     withTimezone |-> Coalesce(config.withTimezone, FALSE),
     precision |-> config.precision]

\* timestamp(name, config): the mode picks the class
timestamp(config) ==
    IF config.mode = <<"string">> THEN SnowflakeTimestampString(config)
    ELSE SnowflakeTimestamp(config)

SnowflakeDate == [columnType |-> "SnowflakeDate"]
SnowflakeDateString == [columnType |-> "SnowflakeDateString"]

\* date(name, config): the mode picks the class
date(config) ==
    IF config.mode = <<"string">> THEN SnowflakeDateString ELSE SnowflakeDate

SnowflakeText == [columnType |-> "SnowflakeText"]
SnowflakeInteger == [columnType |-> "SnowflakeInteger"]
SnowflakeBoolean == [columnType |-> "SnowflakeBoolean"]

\* SnowflakeVarchar.getSQLType
VarcharGetSQLType(column) ==
    IF column.length = Unset THEN "varchar"
    ELSE "varchar(" \o ToString(column.length[1]) \o ")"

\* variant: precision and scale are joined without the space
NumberGetSQLType_NoSpace(column) ==
    IF column.precision # Unset /\ column.scale # Unset
    THEN "number(" \o ToString(column.precision[1]) \o ","
         \o ToString(column.scale[1]) \o ")"
    ELSE IF column.precision # Unset
    THEN "number(" \o ToString(column.precision[1]) \o ")"
    ELSE "number"

\* SnowflakeNumber.getSQLType
NumberGetSQLType(column) ==
    IF column.precision # Unset /\ column.scale # Unset
    THEN "number(" \o ToString(column.precision[1]) \o ", "
         \o ToString(column.scale[1]) \o ")"
    ELSE IF column.precision # Unset
    THEN "number(" \o ToString(column.precision[1]) \o ")"
    ELSE "number"

\* SnowflakeTimestamp.getSQLType and SnowflakeTimestampString.getSQLType
TimestampGetSQLType(column) ==
    LET precision == IF column.precision = Unset THEN ""
                     ELSE "(" \o ToString(column.precision[1]) \o ")"
    IN  IF column.withTimezone THEN "timestamp_tz" \o precision
        ELSE "timestamp_ntz" \o precision

\* column.getSQLType(), dispatched on the class of the column
getSQLType(column) ==
    CASE column.columnType = "SnowflakeVarchar" -> VarcharGetSQLType(column)
      [] column.columnType = "SnowflakeNumber" -> NumberGetSQLType(column)
      [] column.columnType \in {"SnowflakeTimestamp",
                                "SnowflakeTimestampString"} ->
            TimestampGetSQLType(column)
      [] column.columnType = "SnowflakeText" -> "text"
      [] column.columnType = "SnowflakeInteger" -> "integer"
      [] column.columnType = "SnowflakeBoolean" -> "boolean"
      [] column.columnType \in {"SnowflakeDate", "SnowflakeDateString"} ->
            "date"

\* the call query.factory(name, query.config) of a column factory
ColumnOf(q) ==
    CASE q.factory = "varchar" -> SnowflakeVarchar(q.config)
      [] q.factory = "number" -> SnowflakeNumber(q.config)
      [] q.factory = "timestamp" -> timestamp(q.config)
      [] q.factory = "date" -> date(q.config)
      [] q.factory = "text" -> SnowflakeText
      [] q.factory = "integer" -> SnowflakeInteger
      [] q.factory = "boolean" -> SnowflakeBoolean

\* the column is built into a table and the test reads its getSQLType()
GetSQLType(factory) ==
    /\ query.kind = "column"
    /\ query.factory = factory
    /\ built = NotBuilt
    /\ built' = [kind |-> "type", column |-> ColumnOf(query),
                 text |-> getSQLType(ColumnOf(query))]
    /\ UNCHANGED <<query, sent, pc, ctl, bst, depth, waitOn, exc, caught,
                   outcome, calls, nestedCalls, rollbackCalls, detached>>

Sizes == Optional(0..MaxPrecision)
Modes == Optional({"date", "string"})

InitColumnType ==
    /\ SessionInit
    /\ \/ \E length \in Sizes :
            query = [kind |-> "column", factory |-> "varchar",
                     config |-> [length |-> length]]
       \/ \E precision \in Sizes, scale \in Sizes :
            query = [kind |-> "column", factory |-> "number",
                     config |-> [precision |-> precision, scale |-> scale]]
       \/ \E withTimezone \in Optional(BOOLEAN), precision \in Sizes,
             mode \in Modes :
            query = [kind |-> "column", factory |-> "timestamp",
                     config |-> [withTimezone |-> withTimezone,
                                 precision |-> precision, mode |-> mode]]
       \/ \E mode \in Modes :
            query = [kind |-> "column", factory |-> "date",
                     config |-> [mode |-> mode]]
       \/ \E factory \in {"text", "integer", "boolean"} :
            query = [kind |-> "column", factory |-> factory,
                     config |-> [none |-> Unset]]
    /\ built = NotBuilt

NextColumnType ==
    \/ GetSQLType("varchar")
    \/ GetSQLType("number")
    \/ GetSQLType("timestamp")
    \/ GetSQLType("date")
    \/ GetSQLType("text")
    \/ GetSQLType("integer")
    \/ GetSQLType("boolean")

SpecColumnType == InitColumnType /\ [][NextColumnType]_vars

\* ------------------------------------------------- reading the call log
\* positions in the log of the statements with text sql that call t sent
Sent(t, sql) == {i \in 1..Len(sent) : sent[i].tx = t /\ sent[i].sql = sql}
Count(t, sql) == Cardinality(Sent(t, sql))
\* every statement of call t still waiting for its complete callback
Outstanding(t) == {i \in 1..Len(sent) : sent[i].tx = t /\ sent[i].st = "pending"}
Done(t) == pc[t] \in {"resolved", "rejected"}
\* the body of call t resolved normally and transaction() has settled
BodyResolved(t) == bst[t] = "resolved" /\ Done(t)
\* the body of call t rejected and transaction() has settled
BodyRaised(t) == bst[t] = "rejected" /\ Done(t)
\* BEGIN first, then the body statements, then COMMIT
BeginBodyCommit(t) ==
    /\ Count(t, BEGIN_TRANSACTION) = 1
    /\ Count(t, COMMIT) = 1
    /\ \A b \in Sent(t, BEGIN_TRANSACTION), c \in Sent(t, COMMIT) :
          /\ b < c
          /\ \A i \in BodyStmts(t) : b < i /\ i < c

\* C1 (as stated): a call whose body resolves normally sends exactly one
\* BEGIN TRANSACTION and one COMMIT, in that order around the body
\* statements, and no ROLLBACK.
C1_Original ==
    \A t \in Tx : BodyResolved(t) =>
        BeginBodyCommit(t) /\ Count(t, ROLLBACK) = 0

\* C1 (amended): a call whose body resolves normally sends exactly one BEGIN
\* TRANSACTION and one COMMIT, in that order around the body statements; it
\* sends no ROLLBACK when that COMMIT succeeds and exactly one ROLLBACK,
\* after the COMMIT, when the COMMIT fails.
C1_BeginCommit ==
    \A t \in Tx : BodyResolved(t) =>
        /\ BeginBodyCommit(t)
        /\ \A c \in Sent(t, COMMIT) :
              IF sent[c].st = "ok"
              THEN Count(t, ROLLBACK) = 0 /\ pc[t] = "resolved"
              ELSE /\ Count(t, ROLLBACK) = 1
                   /\ \A r \in Sent(t, ROLLBACK) : c < r
                   /\ pc[t] = "rejected"

C1_Witness ==
    \E t \in Tx : pc[t] = "resolved" /\ Cardinality(BodyStmts(t)) = MaxStmts

\* C2 (as stated): a call whose body raises sends exactly one BEGIN
\* TRANSACTION followed by exactly one ROLLBACK, no COMMIT, and rejects with
\* the very error the body raised.
C2_Original ==
    \A t \in Tx : BodyRaised(t) =>
        /\ Count(t, BEGIN_TRANSACTION) = 1
        /\ Count(t, ROLLBACK) = 1
        /\ Count(t, COMMIT) = 0
        /\ \A b \in Sent(t, BEGIN_TRANSACTION), r \in Sent(t, ROLLBACK) : b < r
        /\ outcome[t] = exc[t]

\* C2 (amended): a call whose body raises sends exactly one BEGIN
\* TRANSACTION followed by exactly one ROLLBACK and no COMMIT; it rejects
\* with the very error the body raised when that ROLLBACK succeeds, and
\* with the ROLLBACK's error when the ROLLBACK fails.
C2_BeginRollback ==
    \A t \in Tx : BodyRaised(t) =>
        /\ Count(t, BEGIN_TRANSACTION) = 1
        /\ Count(t, ROLLBACK) = 1
        /\ Count(t, COMMIT) = 0
        /\ \A b \in Sent(t, BEGIN_TRANSACTION), r \in Sent(t, ROLLBACK) :
              /\ b < r
              /\ \A i \in BodyStmts(t) : b < i /\ i < r
              /\ outcome[t] = IF sent[r].st = "ok" THEN exc[t]
                              ELSE DriverError(r)

C2_Witness ==
    \E t \in Tx : /\ BodyRaised(t)
                  /\ exc[t] = BodyError(t)
                  /\ outcome[t] = BodyError(t)

\* C3: tx.transaction() on a handle of any depth sends nothing: the step
\* only moves the body to the next nestedIndex and leaves it running, and a
\* call that used nested handles and succeeded sent exactly one BEGIN
\* TRANSACTION, one COMMIT and no ROLLBACK in total.
C3_NestedStep ==
    \A t \in Tx : depth'[t] > depth[t] =>
        /\ sent' = sent
        /\ calls' = calls
        /\ depth'[t] = depth[t] + 1
        /\ pc'[t] = "body" /\ bst'[t] = "run"

C3_NestedTotal ==
    \A t \in Tx : (nestedCalls[t] /\ pc[t] = "resolved") =>
        /\ Count(t, BEGIN_TRANSACTION) = 1
        /\ Count(t, COMMIT) = 1
        /\ Count(t, ROLLBACK) = 0

C3_Nested == [][C3_NestedStep]_vars /\ []C3_NestedTotal

C3_Witness ==
    \E t \in Tx : /\ pc[t] = "resolved"
                  /\ \E i \in BodyStmts(t) : sent[i].nestedIndex = MaxDepth

\* C4 (as stated): rollback() throws TransactionRollbackError and sends
\* nothing itself; the enclosing top-level transaction then sends the real
\* ROLLBACK and no COMMIT.
C4_Original ==
    \A t \in Tx : (rollbackCalls[t] /\ Done(t)) =>
        Count(t, ROLLBACK) = 1 /\ Count(t, COMMIT) = 0

\* C4 (amended): rollback() on a handle of any depth always throws
\* TransactionRollbackError and sends nothing itself; when the signal
\* leaves the outermost body (no try/catch of the body handles it) the
\* error path of the top-level transaction catches it and sends the real
\* ROLLBACK, and no COMMIT is sent.
C4_RollbackStep ==
    \A t \in Tx :
        /\ (rollbackCalls'[t] /\ ~rollbackCalls[t]) =>
              /\ exc'[t] = TransactionRollbackError
              /\ bst'[t] = "thrown"
              /\ sent' = sent
              /\ calls' = calls
        /\ (exc'[t] = TransactionRollbackError /\ exc'[t] # exc[t]) =>
              /\ rollbackCalls'[t]
              /\ bst'[t] = "thrown"
              /\ sent' = sent
              /\ calls' = calls

C4_SignalCaught ==
    \A t \in Tx :
        /\ (bst[t] = "rejected" /\ exc[t] = TransactionRollbackError
              /\ pc[t] # "body") =>
              /\ caught[t] = TransactionRollbackError
              /\ Count(t, ROLLBACK) = 1
              /\ Count(t, COMMIT) = 0
        /\ (rollbackCalls[t] /\ bst[t] \in {"run", "await", "resolved"}) =>
              exc[t] # TransactionRollbackError

C4_Rollback == [][C4_RollbackStep]_vars /\ []C4_SignalCaught

C4_Witness ==
    \E t \in Tx : /\ pc[t] = "rejected"
                  /\ nestedCalls[t]
                  /\ outcome[t] = TransactionRollbackError

\* C5: when the body raises E, transaction() rejects only after the ROLLBACK
\* callback ran; with R when the ROLLBACK failed with R, with E otherwise.
C5_Masking ==
    \A t \in Tx : BodyRaised(t) =>
        /\ sent[ctl[t]].sql = ROLLBACK
        /\ sent[ctl[t]].tx = t
        /\ Settled(ctl[t])
        /\ sent[ctl[t]].st = "err" => outcome[t] = DriverError(ctl[t])
        /\ sent[ctl[t]].st = "ok" => outcome[t] = exc[t]

C5_Witness ==
    \E t \in Tx : /\ BodyRaised(t)
                  /\ outcome[t] = DriverError(ctl[t])
                  /\ exc[t] # outcome[t]

\* statements of the body of call t whose complete callback got an error
Failed(t) == {i \in BodyStmts(t) : sent[i].st = "err"}

\* C6 (as stated): whenever a statement executed inside a transaction
\* fails, ROLLBACK is issued and the transaction is never committed.
C6_Original ==
    \A t \in Tx : (Failed(t) # {} /\ Done(t)) =>
        Count(t, ROLLBACK) = 1 /\ Count(t, COMMIT) = 0

\* C6 (amended): whenever the failure of a statement executed inside a
\* transaction (at any nesting depth) leaves the outermost body, i.e. the
\* body's promise rejects with it, ROLLBACK is issued and the transaction
\* is never committed.
C6_FailureRollsBack ==
    \A t \in Tx : (bst[t] = "rejected" /\ exc[t].src = "driver") =>
        /\ exc[t].id \in Failed(t)
        /\ Count(t, COMMIT) = 0
        /\ pc[t] # "resolved"
        /\ pc[t] # "body" => Count(t, ROLLBACK) = 1

C6_Witness ==
    \E t \in Tx : /\ pc[t] = "rejected"
                  /\ bst[t] = "rejected"
                  /\ exc[t].src = "driver"
                  /\ sent[exc[t].id].nestedIndex = MaxDepth

\* C7: every execute()/all() and every control statement is exactly one
\* connection.execute call, and an error reported to the complete callback
\* is what the promise rejects with: the same error object, no mapper, no
\* second attempt.
C7_NoRetryNoWrap ==
    /\ calls = Len(sent)
    /\ \A t \in Tx : /\ Count(t, BEGIN_TRANSACTION) <= 1
                     /\ Count(t, COMMIT) <= 1
                     /\ Count(t, ROLLBACK) <= 1
    /\ \A i \in 1..Len(sent) :
          /\ sent[i].st = "pending" => sent[i].val = None
          /\ sent[i].st = "err" => sent[i].val = DriverError(i)
          /\ sent[i].st = "ok" =>
                sent[i].val = IF sent[i].kind = "executeMapped"
                              THEN Mapped(i) ELSE Rows(i)
    /\ \A t \in Tx :
          /\ bst[t] = "thrown" /\ exc[t].src = "driver" =>
                sent[exc[t].id].st = "err"
          /\ (pc[t] = "rejected" /\ bst[t] = "none") =>
                outcome[t] = DriverError(ctl[t])

C7_Witness ==
    /\ \E i \in 1..Len(sent) :
          sent[i].kind = "executeMapped" /\ sent[i].st = "err"
    /\ \E i \in 1..Len(sent) :
          sent[i].sql = ROLLBACK /\ sent[i].st = "err"

\* C8 (as stated): two statements of one transaction are never outstanding
\* on the connection at the same time.
C8_Original ==
    \A t \in Tx : Cardinality(Outstanding(t)) <= 1

\* C8 (amended): BEGIN completes before the body is invoked, COMMIT or
\* ROLLBACK is sent only after the body's promise settled (ROLLBACK after a
\* failed COMMIT only after that COMMIT completed), and when the body
\* awaits each statement it issues before going on, two statements of the
\* transaction are never outstanding at the same time.
C8_OneAtATime ==
    \A t \in Tx :
        /\ ~detached[t] => Cardinality(Outstanding(t)) <= 1
        /\ \A i \in Outstanding(t) :
              /\ sent[i].sql = BEGIN_TRANSACTION => Outstanding(t) = {i}
              /\ sent[i].sql \in {COMMIT, ROLLBACK} =>
                    /\ bst[t] \in {"resolved", "rejected"}
                    /\ \A j \in Outstanding(t) \ {i} : sent[j].sql = STMT
        /\ (pc[t] = "body") => Sent(t, BEGIN_TRANSACTION) \cap Outstanding(t) = {}

C8_Witness ==
    \E t \in Tx : /\ ~detached[t]
                  /\ Cardinality(BodyStmts(t)) = MaxStmts
                  /\ Done(t)

\* C9: the session holds no lock or queue: a transaction() call sends its
\* BEGIN TRANSACTION at once, whatever the other calls on the session are
\* doing, so the statements of two calls interleave on the connection.
C9_NoLock ==
    \A t \in Tx : pc[t] = "idle" => ENABLED SessionTransaction(t)

C9_Witness ==
    \E i, j, k, l \in 1..Len(sent) :
        /\ i < j /\ j < k /\ k < l
        /\ sent[i].tx = 1 /\ sent[i].sql = BEGIN_TRANSACTION
        /\ sent[j].tx = 2 /\ sent[j].sql = BEGIN_TRANSACTION
        /\ sent[k].tx = 1 /\ sent[k].sql = STMT
        /\ sent[l].tx = 2 /\ sent[l].sql = COMMIT

\* the tables of the columns a SELECT refers to: bare columns of the
\* selection, columns inside SQL expressions of the selection, and WHERE
ReferencedTables(cfg) ==
    {cfg.fieldsFlat[k].field.table : k \in DOMAIN cfg.fieldsFlat}
    \cup (IF cfg.where = NoTable THEN {} ELSE {cfg.where})

\* table is the root of the query or is in its join list
PartOfQuery(cfg, table) ==
    \/ cfg.table.kind # "sql" /\ cfg.table.table = table
    \/ \E j \in DOMAIN cfg.joins : cfg.joins[j].table = table

\* C10 (as stated): buildSelectQuery fails, before producing SQL, exactly
\* when some column the query refers to belongs neither to the root table
\* nor to a joined table.
C10_Original ==
    built # NotBuilt =>
        (built.kind = "error" <=>
            \E t \in ReferencedTables(query) : ~PartOfQuery(query, t))

\* the selected bare columns whose table carries neither the root's name
\* nor the name of a join entry
Unjoined(cfg) ==
    {k \in DOMAIN cfg.fieldsFlat :
        /\ cfg.fieldsFlat[k].field.kind = "column"
        /\ cfg.fieldsFlat[k].field.table.name #
              (IF cfg.table.kind = "table" THEN cfg.table.table.name
               ELSE IF cfg.table.kind = "subquery" THEN cfg.table.alias
               ELSE Undefined)
        /\ \A j \in DOMAIN cfg.joins :
              cfg.joins[j].alias #
                 (IF cfg.fieldsFlat[k].field.table.isAlias
                  THEN cfg.fieldsFlat[k].field.table.name
                  ELSE cfg.fieldsFlat[k].field.table.baseName)}

\* C10 (amended): before producing any SQL buildSelectQuery checks every
\* bare column of the selected field list, by name: the column's table must
\* be named like the root (the root table's name, the alias of a root
\* subquery) or be listed in the join list under its alias (base name if
\* not aliased).  The first field that fails makes it throw an error naming
\* that field's path, table and column; otherwise this error is not
\* raised.  Columns mentioned elsewhere (SQL expressions, WHERE) are not
\* checked.
C10_SelectedColumnsJoined ==
    built # NotBuilt =>
        IF Unjoined(query) = {}
        THEN built.kind = "sql"
        ELSE \E k \in Unjoined(query) :
                /\ \A m \in Unjoined(query) : k <= m
                /\ built.kind = "error"
                /\ built.path = (IF Len(PathOf(k)) = 1 THEN PathOf(k)[1]
                                 ELSE IF k = 2 THEN "nested->b"
                                 ELSE "nested->more->d")
                /\ built.table = query.fieldsFlat[k].field.table.name
                /\ built.column = query.fieldsFlat[k].field.name

C10_Witness ==
    /\ built.kind = "error"
    /\ built.path = "nested->b"
    /\ Len(query.joins) = 1
    /\ query.fieldsFlat[1].field.kind = "column"
    /\ query.fieldsFlat[1].field.table # query.table.table
\* the chunk buildSelection made for field k of the selection
SelectionOf(k) == built.selection[2 * k - 1]

\* the column chunks and identifier chunks field k's column was written as
ColumnAs(k) ==
    IF query.fieldsFlat[k].field.kind = "sql"
    THEN SelectionOf(k).queryChunks[2]
    ELSE SelectionOf(k)

\* C11: in a compiled SELECT every projected column is written without
\* its table exactly when the join list is empty, and with its table
\* whenever the join list is non-empty.
C11_QualifiedIffJoins ==
    (built # NotBuilt /\ built.kind = "sql") =>
        /\ Len(built.selection) = 2 * Len(query.fieldsFlat) - 1
        /\ \A k \in DOMAIN query.fieldsFlat :
              /\ ColumnAs(k).name = query.fieldsFlat[k].field.name
              /\ Qualified(ColumnAs(k)) <=> Len(query.joins) > 0
              /\ Qualified(ColumnAs(k)) =>
                    ColumnAs(k).table = query.fieldsFlat[k].field.table.name
              /\ ~Qualified(ColumnAs(k)) =>
                    ColumnAs(k) = Identifier(query.fieldsFlat[k].field.name)

\* a join of two tables with a column of each selected, compiled
C11_Witness ==
    /\ built # NotBuilt /\ built.kind = "sql"
    /\ Len(query.joins) = 1
    /\ Len(query.fieldsFlat) = 2
    /\ query.fieldsFlat[1].field.kind = "column"
    /\ query.fieldsFlat[2].field.kind = "column"
    /\ query.fieldsFlat[1].field.table # query.fieldsFlat[2].field.table
    /\ Qualified(built.selection[1]) /\ Qualified(built.selection[3])

\* ------------------------------------------------ INSERT, UPDATE, DELETE
\* the columns of the table of cfg that are not insert-disabled
Enabled(cfg) ==
    {k \in DOMAIN cfg.table.columns : ~cfg.table.columns[k].disableInsert}

\* the j-th member of the set S of positions, in table order
Nth(S, j) == CHOOSE k \in S : Cardinality({m \in S : m < k}) = j - 1

\* C12: in every compiled INSERT the column list is made of the columns
\* that are not insert-disabled, in table order, and every row has one
\* value per listed column: an insert-disabled column is neither listed nor
\* given a value, whether or not the caller supplied one for it.
C12_DisabledLeftOut ==
    (built # NotBuilt /\ query.kind = "insert") =>
        /\ Len(built.insertOrder) = Cardinality(Enabled(query))
        /\ \A j \in DOMAIN built.insertOrder :
              built.insertOrder[j] =
                  Identifier(ColumnNames[Nth(Enabled(query), j)])
        /\ \A k \in DOMAIN ColumnNames :
              query.table.columns[k].disableInsert =>
                  \A j \in DOMAIN built.insertOrder :
                      built.insertOrder[j].name # ColumnNames[k]
        /\ Len(built.values) = Len(query.values)
        /\ \A r \in DOMAIN built.values :
              Len(built.values[r]) = Cardinality(Enabled(query))

\* an INSERT of two rows compiled for a table whose first column is
\* insert-disabled, with a value supplied for that column in each row
C12_Witness ==
    /\ built # NotBuilt /\ query.kind = "insert"
    /\ query.table.columns[1].disableInsert
    /\ ~query.table.columns[2].disableInsert
    /\ Len(query.values) = 2
    /\ \A r \in DOMAIN query.values : query.values[r][1] = Param("v")
    /\ built.insertOrder = <<Identifier("name")>>

\* the caller supplied a value for the column
Supplied(value) == value.kind = "param" /\ value.value # Undefined

\* C13 (as stated): for each row and each inserted column the value is the
\* explicit value if supplied, else the result of the default-generator if
\* the column has one, else the result of the update-generator if the
\* column has one and no static default is configured, else DEFAULT.
C13_Original ==
    (built # NotBuilt /\ query.kind = "insert") =>
        \A r \in DOMAIN built.values : \A j \in DOMAIN built.values[r] :
            LET k == Nth(Enabled(query), j)
                col == query.table.columns[k]
            IN  built.values[r][j] =
                    IF Supplied(query.values[r][k]) THEN query.values[r][k]
                    ELSE IF col.defaultFn THEN Param("defaultFn()")
                    ELSE IF col.onUpdateFn /\ col.default = Undefined
                    THEN Param("onUpdateFn()")
                    ELSE Default

\* the statement a descriptor compiles to
Compile(cfg) ==
    IF cfg.kind = "insert" THEN buildInsertQuery(cfg)
    ELSE IF cfg.kind = "update" THEN buildUpdateQuery(cfg)
    ELSE buildDeleteQuery(cfg)

\* the descriptors that differ from cfg in returning and onConflict only
ReturningVariants(cfg) ==
    IF cfg.kind = "insert"
    THEN {[cfg EXCEPT !.returning = r, !.onConflict = c] :
             r \in Returnings, c \in OnConflicts}
    ELSE {[cfg EXCEPT !.returning = r] : r \in Returnings}

\* C14: RETURNING (INSERT, UPDATE, DELETE) and ON CONFLICT (INSERT) are
\* ignored: every descriptor that differs from the compiled one in its
\* returning / onConflict configuration only compiles to the same statement.
C14_ReturningIgnored ==
    (built # NotBuilt /\ query.kind \in {"insert", "update", "delete"}) =>
        \A other \in ReturningVariants(query) : Compile(other) = built

\* an INSERT with both a returning and an onConflict configuration compiled
C14_Witness ==
    /\ built # NotBuilt /\ query.kind = "insert"
    /\ query.returning = "id" /\ query.onConflict = "do nothing"
    /\ Len(built.values) > 0

\* the columns the SET list of the UPDATE of cfg is to have
InSet(cfg) ==
    {k \in DOMAIN cfg.table.columns :
        cfg.set[k] # Absent \/ cfg.table.columns[k].onUpdateFn}

\* C15: the SET list of a compiled UPDATE has a table column if and only if
\* a value was supplied for it or it has an update-generator; each such
\* column is there once, in table order, with the supplied value if there
\* is one and the update-generator's result otherwise.
C15_SetList ==
    (built # NotBuilt /\ query.kind = "update") =>
        /\ Len(built.set) = Cardinality(InSet(query))
        /\ \A j \in DOMAIN built.set :
              LET k == Nth(InSet(query), j)
              IN  /\ built.set[j].column = Identifier(ColumnNames[k])
                  /\ built.set[j].value =
                        IF query.set[k] # Absent THEN query.set[k]
                        ELSE Param("onUpdateFn()")

\* an UPDATE compiled where the first column has an update-generator and no
\* value, and the second has both
C15_Witness ==
    /\ built # NotBuilt /\ query.kind = "update"
    /\ query.table.columns[1].onUpdateFn /\ query.set[1] = Absent
    /\ query.table.columns[2].onUpdateFn /\ query.set[2] = Param("v")
    /\ Len(built.set) = 2

\* C16 (as stated): building a query leaves the query descriptor and every
\* SQL fragment, subquery and column reachable from it unchanged.
C16_Original == [][query' = query]_vars

\* ---------------------------------------------------------------- migrate
\* migration m of the call is pending: nothing is recorded, or its
\* folderMillis is greater than the recorded created_at
Pending(m) ==
    IF query.dbMigrations = <<>> THEN TRUE
    ELSE query.migrations[m].folderMillis > query.dbMigrations[1].created_at

\* the statements of migrations m.. that are to be sent
RECURSIVE ExpectedFrom(_)
ExpectedFrom(m) ==
    IF m > Len(query.migrations) THEN <<>>
    ELSE (IF Pending(m)
          THEN [s \in 1..query.migrations[m].sql |->
                   Statement(MIGRATION_STMT, m, s)]
               \o <<Statement(INSERT_MIGRATION, m, 0)>>
          ELSE <<>>)
         \o ExpectedFrom(m + 1)

\* everything a migrate() call is to send, in order
Expected ==
    <<Statement(CREATE_SCHEMA, 0, 0), Statement(CREATE_TABLE, 0, 0),
      Statement(SELECT_LAST, 0, 0)>> \o ExpectedFrom(1)

IsPrefix(a, b) == Len(a) <= Len(b) /\ \A i \in DOMAIN a : a[i] = b[i]

\* C17: what migrate() has sent is at any time the beginning of: CREATE
\* SCHEMA, CREATE TABLE, the SELECT of the last recorded migration, and
\* then, for each pending migration in input order, its statements in order
\* and one INSERT recording it; when migrate() resolves it has sent all of
\* that.  Migrations that are not pending are never run, and no BEGIN or
\* COMMIT is sent.
C17_MigrateOrder ==
    (built # NotBuilt /\ query.kind = "migrate") =>
        /\ IsPrefix(built.log, Expected)
        /\ built.pc = "resolved" => built.log = Expected
        /\ \A i \in DOMAIN built.log :
              /\ built.log[i].sql \notin {BEGIN_TRANSACTION, COMMIT}
              /\ built.log[i].migration > 0 =>
                    Pending(built.log[i].migration)

\* migrate() has resolved after skipping the first migration and running
\* the second, which has two statements
C17_Witness ==
    /\ built # NotBuilt /\ query.kind = "migrate"
    /\ built.pc = "resolved"
    /\ Len(query.migrations) = 2
    /\ ~Pending(1) /\ Pending(2)
    /\ query.migrations[2].sql = 2
    /\ Len(built.log) = 6

\* ------------------------------------------------------ constraint names
\* {table}_{columns}_{suffix}; a foreign key also names the foreign table
\* and the foreign columns
DefaultName(cfg) ==
    IF cfg.kind = "primaryKey"
    THEN join(<<cfg.table.name>> \o cfg.columns \o <<"pk">>, "_")
    ELSE IF cfg.kind = "unique"
    THEN join(<<cfg.table.name>> \o cfg.columns \o <<"unique">>, "_")
    ELSE join(<<cfg.table.name>> \o cfg.columns
              \o <<cfg.foreignTable.name>> \o cfg.foreignColumns
              \o <<"fk">>, "_")

\* C18 (as stated): getName() of a primary key, unique constraint or
\* foreign key is the explicitly supplied name when one was given, and the
\* default name made of the table, the columns and the suffix otherwise.
C18_Original ==
    (built # NotBuilt
        /\ query.kind \in {"primaryKey", "unique", "foreignKey"}) =>
        built.name = IF query.name # Undefined THEN query.name
                     ELSE DefaultName(query)

\* --------------------------------------------------------------- escaping
Malformed == <<"malformed">>

\* what the text between two quotes q stands for when every q in it is
\* written twice; Malformed when a q stands alone
RECURSIVE Unquote(_, _)
Unquote(inner, q) ==
    IF inner = <<>> THEN <<>>
    ELSE IF Head(inner) # q
    THEN LET rest == Unquote(Tail(inner), q)
         IN  IF rest = Malformed THEN Malformed ELSE <<Head(inner)>> \o rest
    ELSE IF Len(inner) >= 2 /\ inner[2] = q
    THEN LET rest == Unquote(Tail(Tail(inner)), q)
         IN  IF rest = Malformed THEN Malformed ELSE <<q>> \o rest
    ELSE Malformed

\* text is str between one pair of quotes q, with every q of str doubled
\* and every other character as it is
Quoted(text, q, str) ==
    /\ Len(text) >= 2
    /\ text[1] = q /\ text[Len(text)] = q
    /\ Unquote(SubSeq(text, 2, Len(text) - 1), q) = str
    /\ Len(text) = 2 + Len(str)
                     + Cardinality({i \in DOMAIN str : str[i] = q})

\* C19: escapeString(s) is s between one pair of single quotes, with every
\* single quote of s doubled and every other character unchanged and in
\* order, so that s can be read back from the result.
C19_EscapeString ==
    (built # NotBuilt /\ query.kind = "string") =>
        Quoted(built.text, SQ, query.str)

\* it's has been escaped to 'it''s' (with the letters of the alphabet)
C19_Witness ==
    /\ built # NotBuilt /\ query.kind = "string"
    /\ query.str = <<"a", SQ, "B">>
    /\ built.text = <<SQ, "a", SQ, SQ, "B", SQ>>

\* C20 (as stated): escapeName(name) is name between one pair of double
\* quotes, without case folding and with every double quote of name
\* doubled, so that the result is one well-formed quoted identifier.
C20_Original ==
    (built # NotBuilt /\ query.kind = "name") =>
        Quoted(built.text, DQ, query.str)

\* C21: escapeParam yields the same token ? for every ordinal: the
\* placeholder of a parameter does not tell its position.
C21_PlaceholderSame ==
    (built # NotBuilt /\ query.kind = "param") =>
        /\ built.text = <<"?">>
        /\ \A num \in 0..MaxOrdinal : escapeParam(num) = built.text

\* the placeholder of a parameter that is not the first has been made
C21_Witness ==
    /\ built # NotBuilt /\ query.kind = "param"
    /\ query.num = MaxOrdinal
    /\ built.text = <<"?">>

\* ---------------------------------------------------------------- C22
\* the text of "(n)" for a setting that is set to n
Paren(setting) == "(" \o ToString(setting[1]) \o ")"
\* C22: getSQLType() follows the documented grammar for every column
\* configuration: varchar(n) with a length and varchar without; number(p, s)
\* with precision and scale, number(p) with only a precision, number
\* otherwise; timestamp_tz when configured with timezone and timestamp_ntz
\* otherwise, followed by (p) exactly when a precision is set; text,
\* integer, boolean and date render their fixed names.
C22_SQLTypeGrammar ==
    built.kind = "type" =>
        LET c == query.config
            f == query.factory
        IN  /\ f = "varchar" /\ c.length # Unset =>
                  built.text = "varchar" \o Paren(c.length)
            /\ f = "varchar" /\ c.length = Unset => built.text = "varchar"
            /\ f = "number" /\ c.precision # Unset /\ c.scale # Unset =>
                  built.text = "number(" \o ToString(c.precision[1]) \o ", "
                               \o ToString(c.scale[1]) \o ")"
            /\ f = "number" /\ c.precision # Unset /\ c.scale = Unset =>
                  built.text = "number" \o Paren(c.precision)
            /\ f = "number" /\ c.precision = Unset => built.text = "number"
            /\ f = "timestamp" =>
                  built.text =
                      (IF c.withTimezone = <<TRUE>> THEN "timestamp_tz"
                       ELSE "timestamp_ntz")
                      \o (IF c.precision # Unset THEN Paren(c.precision)
                          ELSE "")
            /\ f \in {"text", "integer", "boolean", "date"} =>
                  built.text = f

\* a timestamp with precision and no timezone setting, and a number with
\* precision and scale, have been rendered
C22_Witness ==
    /\ built.kind = "type"
    /\ \/ /\ query.factory = "timestamp"
          /\ query.config.withTimezone = Unset
          /\ query.config.precision = <<MaxPrecision>>
          /\ built.text = "timestamp_ntz(" \o ToString(MaxPrecision) \o ")"
       \/ /\ query.factory = "number"
          /\ query.config.precision # Unset
          /\ query.config.scale # Unset

\* ---------------------------------------------------------------- C23
\* the combination steps of a compiled text, from the outermost inwards
RECURSIVE Steps(_)
Steps(sql) ==
    IF "statement" \in DOMAIN sql
    THEN IF sql.statement = "setOperation" THEN <<sql>> \o Steps(sql.left)
         ELSE <<>>
    ELSE <<>>
\* step is the combination that descriptor d asks for: its operator between
\* the two parenthesised sides, then its ORDER BY, LIMIT and OFFSET once
Applies(step, d) ==
    /\ step.operator = d.type \o (IF d.isAll THEN " ALL " ELSE " ")
    /\ step.right = buildSelectQuery(d.rightSelect)
    /\ Len(step.orderBy) = Len(d.orderBy)
    /\ step.limit = d.limit
    /\ step.offset = d.offset
C24_EmptyChainRaises ==
    built # NotBuilt =>
        /\ query.kind = "buildSetOperations" =>
              IF Len(query.setOperators) = 0
              THEN built = CannotPassUndefined
              ELSE built.kind = "sql" /\ Len(Steps(built)) >= 1
        /\ query.kind = "setOperation" =>
              /\ built.kind = "sql"
              /\ Len(query.setOperators) = 0 =>
                    /\ built = buildSelectQuery(query.select)
                    /\ Steps(built) = <<>>

\* the set-operation builder has been called with an empty chain
C24_Witness ==
    /\ query.kind = "buildSetOperations"
    /\ Len(query.setOperators) = 0
    /\ built.kind = "error"

\* ---------------------------------------------------------------- C25
\* C25: when BEGIN TRANSACTION fails the body is never invoked, neither
\* COMMIT nor ROLLBACK is sent and transaction() rejects with BEGIN's
\* error; the body is invoked only after BEGIN's complete callback reported
\* success.
C25_BeginFailure ==
    \A t \in Tx :
        /\ \A b \in Sent(t, BEGIN_TRANSACTION) : sent[b].st = "err" =>
              /\ bst[t] = "none"
              /\ BodyStmts(t) = {}
              /\ ~nestedCalls[t] /\ ~rollbackCalls[t]
              /\ Count(t, COMMIT) = 0
              /\ Count(t, ROLLBACK) = 0
              /\ pc[t] \in {"begin", "rejected"}
              /\ pc[t] = "rejected" => outcome[t] = DriverError(b)
        /\ bst[t] # "none" =>
              \E b \in Sent(t, BEGIN_TRANSACTION) : sent[b].st = "ok"

\* a call has rejected with the error of its BEGIN
C25_Witness ==
    \E t \in Tx : /\ pc[t] = "rejected"
                  /\ Len(sent) = 1
                  /\ sent[1].sql = BEGIN_TRANSACTION
                  /\ outcome[t] = DriverError(1)

\* ---------------------------------------------------------------- C26
\* C26: when the body resolves and COMMIT fails, a ROLLBACK is issued after
\* it, the body's result is discarded and transaction() rejects with
\* COMMIT's error, or with ROLLBACK's error when the ROLLBACK fails too;
\* transaction() resolves, with the body's result, only after COMMIT's
\* callback reported success.
C26_CommitFailure ==
    \A t \in Tx :
        /\ \A c \in Sent(t, COMMIT) :
              (sent[c].st = "err" /\ pc[t] # "commit") =>
                  /\ bst[t] = "resolved"
                  /\ Count(t, ROLLBACK) = 1
                  /\ pc[t] \in {"rollback", "rejected"}
                  /\ outcome[t] # Result(t)
                  /\ \A r \in Sent(t, ROLLBACK) :
                        /\ c < r
                        /\ pc[t] = "rejected" =>
                              outcome[t] = IF sent[r].st = "err"
                                           THEN DriverError(r)
                                           ELSE DriverError(c)
        /\ pc[t] = "resolved" =>
              /\ outcome[t] = Result(t)
              /\ bst[t] = "resolved"
              /\ \E c \in Sent(t, COMMIT) : sent[c].st = "ok"

\* COMMIT failed, the ROLLBACK succeeded and the call rejected with the
\* error of COMMIT
C26_Witness ==
    \E t \in Tx : \E c \in Sent(t, COMMIT), r \in Sent(t, ROLLBACK) :
        /\ pc[t] = "rejected"
        /\ sent[c].st = "err"
        /\ sent[r].st = "ok"
        /\ outcome[t] = DriverError(c)
        /\ BodyStmts(t) # {}

\* ---------------------------------------------------------------- C27
\* the control statements call t sent, in the order of the log
ControlSent(t) ==
    SelectSeq(sent, LAMBDA e : e.tx = t /\ e.kind = "control")
\* C27: whatever fails, the control statements of a call are a well-formed
\* sequence: at most one BEGIN, one COMMIT and one ROLLBACK; COMMIT and
\* ROLLBACK only after BEGIN succeeded and the body settled; no COMMIT
\* after ROLLBACK.
C27_WellFormed ==
    \A t \in Tx :
        /\ [i \in DOMAIN ControlSent(t) |-> ControlSent(t)[i].sql] \in
              {<<>>, <<BEGIN_TRANSACTION>>,
               <<BEGIN_TRANSACTION, COMMIT>>,
               <<BEGIN_TRANSACTION, ROLLBACK>>,
               <<BEGIN_TRANSACTION, COMMIT, ROLLBACK>>}
        /\ \A e \in Sent(t, COMMIT) \cup Sent(t, ROLLBACK) :
              /\ \E b \in Sent(t, BEGIN_TRANSACTION) :
                    b < e /\ sent[b].st = "ok"
              /\ bst[t] \in {"resolved", "rejected"}
              /\ depth[t] = 0
        /\ \A c \in Sent(t, COMMIT) : bst[t] = "resolved"
        /\ \A c \in Sent(t, COMMIT), r \in Sent(t, ROLLBACK) :
              c < r /\ sent[c].st = "err"

\* a call that used nested handles sent BEGIN, a COMMIT that failed and a
\* ROLLBACK that failed
C27_Witness ==
    \E t \in Tx :
        /\ nestedCalls[t]
        /\ Len(ControlSent(t)) = 3
        /\ ControlSent(t)[3].sql = ROLLBACK
        /\ ControlSent(t)[3].st = "err"

\* ---------------------------------------------------------------- C28
\* the COMMIT and ROLLBACK statements of call t
Terminating(t) == Sent(t, COMMIT) \cup Sent(t, ROLLBACK)
C28_NoOtherExit ==
    \A t \in Tx :
        /\ Done(t) =>
              /\ ctl[t] = CHOOSE i \in 1..Len(sent) :
                              /\ sent[i].tx = t /\ sent[i].kind = "control"
                              /\ \A j \in 1..Len(sent) :
                                    (sent[j].tx = t
                                       /\ sent[j].kind = "control") => j <= i
              /\ Settled(ctl[t])
              /\ \/ /\ sent[ctl[t]].sql = BEGIN_TRANSACTION
                    /\ sent[ctl[t]].st = "err"
                    /\ pc[t] = "rejected"
                 \/ /\ sent[ctl[t]].sql = COMMIT
                    /\ sent[ctl[t]].st = "ok"
                    /\ pc[t] = "resolved"
                 \/ /\ sent[ctl[t]].sql = ROLLBACK
                    /\ pc[t] = "rejected"
        /\ (pc[t] \in {"begin", "commit", "rollback"}
              /\ ~Settled(ctl[t])) =>
              ~ENABLED TransactionStep(t)
C29_MigrateFailure ==
    (built # NotBuilt /\ query.kind = "migrate") =>
        /\ \A i \in DOMAIN built.log :
              built.log[i].sql = INSERT_MIGRATION =>
                  \A s \in 1..query.migrations[built.log[i].migration].sql :
                      \E j \in 1..(i - 1) :
                          /\ built.log[j] = Statement(MIGRATION_STMT,
                                                built.log[i].migration, s)
                          /\ j \notin built.failed
        /\ built.pc = "rejected" <=> built.failed # {}
        /\ built.failed # {} =>
              LET f == Len(built.log)
              IN  /\ built.failed = {f}
                  /\ built.error = f
                  /\ \A i \in DOMAIN built.log :
                        /\ built.log[i].migration <= built.log[f].migration
                        /\ (built.log[i].sql = INSERT_MIGRATION
                              /\ built.log[i].migration
                                   = built.log[f].migration) => i = f
        /\ \A i \in DOMAIN built.log : built.log[i].sql # ROLLBACK

\* the second statement of the first of two pending migrations has failed
C29_Witness ==
    /\ built # NotBuilt /\ query.kind = "migrate"
    /\ built.pc = "rejected"
    /\ Len(query.migrations) = 2
    /\ Pending(1) /\ Pending(2)
    /\ built.log[Len(built.log)] = Statement(MIGRATION_STMT, 1, 2)
    /\ built.error = 5

\* ---------------------------------------------------------------- C30
\* the position in the table of the j-th column of the emitted column list
ColumnAt(j) ==
    CHOOSE k \in DOMAIN ColumnNames :
        ColumnNames[k] = built.insertOrder[j].name
\* what a column without a supplied value can be filled with
Fallbacks == {Default, Param("defaultFn()"), Param("onUpdateFn()")}
\* C30: in every compiled INSERT ... VALUES each row's value tuple has
\* exactly one entry per column of the emitted column list, in the order of
\* that list: the entry of a column is the value the row supplies under
\* that column's key, or a fallback when the row has none; values under
\* keys of columns that are not inserted are dropped.
C30_RowMatchesColumns ==
    (built # NotBuilt /\ query.kind = "insert" /\ ~query.select) =>
        /\ DOMAIN built.values = DOMAIN query.values
        /\ \A r \in DOMAIN built.values :
              /\ DOMAIN built.values[r] = DOMAIN built.insertOrder
              /\ \A j \in DOMAIN built.insertOrder :
                    IF Supplied(query.values[r][ColumnAt(j)])
                    THEN built.values[r][j] = query.values[r][ColumnAt(j)]
                    ELSE built.values[r][j] \in Fallbacks

\* two rows that each supply one of the two inserted columns, a different
\* one
C30_Witness ==
    /\ built # NotBuilt /\ query.kind = "insert" /\ ~query.select
    /\ Len(built.insertOrder) = 2
    /\ Len(query.values) = 2
    /\ query.values[1] = <<Absent, Param("v")>>
    /\ query.values[2] = <<Param("v"), Absent>>
    /\ built.values[1][2] = Param("v")
    /\ built.values[2][1] = Param("v")

====
